---- MODULE Spec2Model ----
(***************************************************************************)
(* Keybinding engine of the compositor (src/src/input/keyboard.c): keybind  *)
(* matching with per-device filtering, press/release handling, key repeat   *)
(* and asynchronous condition gating; the control-flag invocations of the   *)
(* command line (src/src/main.c); automatic tiling (src/src/desktop.c).     *)
(***************************************************************************)
EXTENDS Integers, Sequences, FiniteSets, TLC

VARIABLES
    keybinds,       \* rc.keybinds: the configured keybind list (enabled is mutable)
    keyboard,       \* the attached keyboard: device name, is_virtual, repeat info
    modifiers,      \* wlr_keyboard modifier mask
    held,           \* environment: the keys physically down on the keyboard
    pressed,        \* key-state: keycodes registered as pressed
    bound,          \* key-state: keycodes whose press was consumed by the compositor
    cur_keybind,    \* static cur_keybind (index into keybinds, or NULL)
    cancel_cycling, \* static should_cancel_cycling_on_next_key_release
    input_mode,     \* server->input_mode
    locked,         \* session_lock_manager->locked
    keybind_repeat, \* keyboard->keybind_repeat: NULL, or the keycode the timer repeats
    ctxs,           \* heap: the allocated keybind_condition_contexts, by slot
    loop,           \* event loop: the registered sources <<"fd" | "timer", slot>>
    client,         \* focused client: the keycodes it has seen pressed and not released
    ev,             \* what the last handler did (inputs, result, calls it made)
    m_in,           \* SpecMatch: the arguments of the last match_keybinding call
    m_out,          \* SpecMatch: its result (index into the keybind list, NULL if none)
    cli,            \* SpecCli: a control-flag invocation of the binary and its world
    desk            \* SpecTile: the views, the outputs and the tiling state

main_vars == <<keybinds, keyboard, modifiers, held, pressed, bound, cur_keybind,
               cancel_cycling, input_mode, locked, keybind_repeat, ctxs, loop,
               client, ev>>
match_vars == <<m_in, m_out>>
cli_vars == <<cli>>
tile_vars == <<desk>>
vars == <<main_vars, match_vars, cli_vars, tile_vars>>

\* A null pointer to a keybind (keybinds are indices into the list, from 1) or to
\* a timer (a timer is the keycode it repeats, from 1)
NULL == 0

\* A null char pointer: strings are sequences of one-character strings, which
\* this is not
NULL_STR == <<"NULL">>

(***************************************************************************)
(* Strings are sequences of one-character strings.                          *)
(***************************************************************************)
\* tolower(3) on the characters device names are built from
tolower(c) == IF c = "K" THEN "k" ELSE IF c = "B" THEN "b" ELSE c

RECURSIVE strcasecmp_at(_, _, _)
strcasecmp_at(s, t, i) ==
    IF i > Len(s) /\ i > Len(t) THEN 0
    ELSE IF i > Len(s) \/ i > Len(t) THEN 1
    ELSE IF tolower(s[i]) # tolower(t[i]) THEN 1
    ELSE strcasecmp_at(s, t, i + 1)

\* strcasecmp(3): 0 iff equal ignoring case (the sign of a difference is not used)
strcasecmp(s, t) == strcasecmp_at(s, t, 1)

\* xkb_keysym_to_lower on the keysyms of the model's keymaps
xkb_keysym_to_lower(sym) == IF sym = "A" THEN "a" ELSE IF sym = "B" THEN "b" ELSE sym

XKB_KEY_NoSymbol == "NoSymbol"

(***************************************************************************)
(* Per-keybind device filters.  A list entry is a device name or NULL.      *)
(***************************************************************************)
RECURSIVE blacklist_scan(_, _, _)
blacklist_scan(list, device_name, i) ==
    IF i > Len(list) THEN FALSE
    ELSE IF list[i] # NULL_STR /\ strcasecmp(list[i], device_name) = 0 THEN TRUE
    ELSE blacklist_scan(list, device_name, i + 1)

keybind_device_is_blacklisted_nullok(keybind, device_name) ==
    IF device_name = NULL_STR THEN keybind.device_blacklist # <<>>
    ELSE blacklist_scan(keybind.device_blacklist, device_name, 1)

keybind_device_is_blacklisted(keybind, device_name) ==
    IF device_name = NULL_STR THEN FALSE
    ELSE blacklist_scan(keybind.device_blacklist, device_name, 1)

RECURSIVE whitelist_scan(_, _, _)
whitelist_scan(list, device_name, i) ==
    IF i > Len(list) THEN FALSE
    ELSE IF list[i] # NULL_STR /\ strcasecmp(list[i], device_name) = 0 THEN TRUE
    ELSE whitelist_scan(list, device_name, i + 1)

keybind_device_is_whitelisted(keybind, device_name) ==
    IF keybind.device_whitelist = <<>> THEN TRUE
    ELSE IF device_name = NULL_STR THEN FALSE
    ELSE whitelist_scan(keybind.device_whitelist, device_name, 1)

(***************************************************************************)
(* Keybind lookup.                                                          *)
(***************************************************************************)
RECURSIVE contains_at(_, _, _)
contains_at(arr, x, i) ==
    IF i > Len(arr) THEN FALSE
    ELSE IF arr[i] = x THEN TRUE
    ELSE contains_at(arr, x, i + 1)

keybind_contains_keycode(keybind, keycode) == contains_at(keybind.keycodes, keycode, 1)

keybind_contains_keysym(keybind, keysym) == contains_at(keybind.keysyms, keysym, 1)

\* match_keybinding_for_sym without the test of keybind->enabled
RECURSIVE match_for_sym_from_any_enabled(_, _, _, _, _, _)
match_for_sym_from_any_enabled(kbl, mods, sym, xkb_keycode, device_name, i) ==
    IF i > Len(kbl) THEN NULL
    ELSE LET keybind == kbl[i]
             next == match_for_sym_from_any_enabled(kbl, mods, sym, xkb_keycode,
                                                    device_name, i + 1)
         IN  IF mods # keybind.modifiers THEN next
             ELSE IF keybind.inhibited THEN next
             ELSE IF keybind_device_is_blacklisted(keybind, device_name) THEN next
             ELSE IF ~keybind_device_is_whitelisted(keybind, device_name) THEN next
             ELSE IF sym = XKB_KEY_NoSymbol
                  THEN (IF keybind_contains_keycode(keybind, xkb_keycode) THEN i ELSE next)
                  ELSE (IF keybind_contains_keysym(keybind, xkb_keysym_to_lower(sym))
                        THEN i ELSE next)

\* One iteration of the wl_list_for_each loop of match_keybinding_for_sym and
\* the rest of the list; the result is the index of the keybind, or NULL.
RECURSIVE match_for_sym_from(_, _, _, _, _, _)
match_for_sym_from(kbl, mods, sym, xkb_keycode, device_name, i) ==
    IF i > Len(kbl) THEN NULL
    ELSE LET keybind == kbl[i]
             next == match_for_sym_from(kbl, mods, sym, xkb_keycode,
                                        device_name, i + 1)
         IN  IF mods # keybind.modifiers THEN next
             ELSE IF ~keybind.enabled THEN next
             ELSE IF keybind.inhibited THEN next
             ELSE IF keybind_device_is_blacklisted(keybind, device_name) THEN next
             ELSE IF ~keybind_device_is_whitelisted(keybind, device_name) THEN next
             ELSE IF sym = XKB_KEY_NoSymbol
                  THEN (IF keybind_contains_keycode(keybind, xkb_keycode) THEN i ELSE next)
                  ELSE (IF keybind_contains_keysym(keybind, xkb_keysym_to_lower(sym))
                        THEN i ELSE next)

match_keybinding_for_sym(kbl, mods, sym, xkb_keycode, device_name) ==
    match_for_sym_from(kbl, mods, sym, xkb_keycode, device_name, 1)

\* if (keybind) return keybind; else go on with the next lookup
first_match(keybind, next) == IF keybind # NULL THEN keybind ELSE next

\* The two keysym loops of match_keybinding
RECURSIVE match_syms_from(_, _, _, _, _)
match_syms_from(kbl, keyinfo, syms, device_name, i) ==
    IF i > Len(syms) THEN NULL
    ELSE first_match(match_keybinding_for_sym(kbl, keyinfo.modifiers, syms[i],
                                              keyinfo.xkb_keycode, device_name),
                     match_syms_from(kbl, keyinfo, syms, device_name, i + 1))

match_keybinding_rawfirst(kbl, keyinfo, is_virtual, device_name) ==
    first_match(IF is_virtual THEN NULL
                ELSE match_keybinding_for_sym(kbl, keyinfo.modifiers, XKB_KEY_NoSymbol,
                                              keyinfo.xkb_keycode, device_name),
        first_match(match_syms_from(kbl, keyinfo, keyinfo.raw, device_name, 1),
                    match_syms_from(kbl, keyinfo, keyinfo.translated, device_name, 1)))

match_keybinding(kbl, keyinfo, is_virtual, device_name) ==
    first_match(IF is_virtual THEN NULL
                ELSE match_keybinding_for_sym(kbl, keyinfo.modifiers, XKB_KEY_NoSymbol,
                                              keyinfo.xkb_keycode, device_name),
        first_match(match_syms_from(kbl, keyinfo, keyinfo.translated, device_name, 1),
                    match_syms_from(kbl, keyinfo, keyinfo.raw, device_name, 1)))

(***************************************************************************)
(* Configuration: keybinds, keymap, keyboards.                              *)
(***************************************************************************)
\* A keybind as keybind_create leaves it, with the fields the rc.xml parser sets.
\* inhibited is view_inhibits_actions(server->active_view, &keybind->actions).
Keybind(mods, keysyms, keycodes) ==
    [modifiers |-> mods, keysyms |-> keysyms, keycodes |-> keycodes,
     on_release |-> FALSE, allow_when_locked |-> FALSE,
     enabled |-> TRUE, toggleable |-> FALSE, inhibited |-> FALSE,
     device_blacklist |-> <<>>, device_whitelist |-> <<>>,
     condition_command |-> NULL_STR, condition_values |-> <<>>]

\* evdev keycodes of the keyboard
Keycodes == {1, 2}

\* modifier masks (0: none)
ModMasks == {0, 1}

\* xkb_keymap_key_get_syms_by_level(..., level 0): the keysyms without modifiers
raw_syms(xkb_keycode) ==
    CASE xkb_keycode = 9 -> <<"a">>
      [] xkb_keycode = 10 -> <<"Escape">>
      [] xkb_keycode = 11 -> <<"Super_L">>
      [] OTHER -> <<>>

\* xkb_state_key_get_syms: the keysyms under the current modifier state
translated_syms(xkb_keycode, mods) ==
    CASE xkb_keycode = 9 -> IF mods = 0 THEN <<"a">> ELSE <<"A">>
      [] xkb_keycode = 10 -> IF mods = 0 THEN <<"Escape">>
                             ELSE <<"XF86Switch_VT_1", "Escape">>
      [] xkb_keycode = 11 -> <<"Super_L">>
      [] OTHER -> <<>>

is_modifier_key(sym) == sym \in {"Shift_L", "Alt_L", "Control_L", "Super_L"}

is_modifier(mods, evdev_keycode) ==
    LET syms == translated_syms(evdev_keycode + 8, mods)
    IN  \E i \in 1..Len(syms) : is_modifier_key(syms[i])

get_keyinfo(mods, evdev_keycode) ==
    LET translated == translated_syms(evdev_keycode + 8, mods)
    IN  [xkb_keycode |-> evdev_keycode + 8,
         translated |-> translated,
         raw |-> raw_syms(evdev_keycode + 8),
         modifiers |-> mods,
         is_modifier |-> \E i \in 1..Len(translated) : is_modifier_key(translated[i])]

\* The keyboards a run attaches one of.  blacklisted is the global
\* keyboard_device_is_blacklisted(name) of the configuration.
Keyboards ==
    { [name |-> <<"k", "b">>, is_virtual |-> FALSE, blacklisted |-> FALSE,
       repeat_rate |-> 25, repeat_delay |-> 600],
      [name |-> NULL_STR, is_virtual |-> TRUE, blacklisted |-> FALSE,
       repeat_rate |-> 0, repeat_delay |-> 600],
      [name |-> <<"B">>, is_virtual |-> FALSE, blacklisted |-> TRUE,
       repeat_rate |-> 25, repeat_delay |-> 600] }

\* The keybind on key "a", with onRelease, allowWhenLocked and a condition or
\* without.  Without condition it is the toggleable keybind the control channel
\* enables and disables.
KeybindA(on_release, allow_when_locked, condition) ==
    [Keybind(0, <<"a">>, <<9>>) EXCEPT
        !.on_release = on_release,
        !.allow_when_locked = allow_when_locked,
        !.toggleable = ~condition,
        !.condition_command = IF condition THEN <<"c", "m", "d">> ELSE NULL_STR,
        !.condition_values = IF condition THEN << <<"o">> >> ELSE <<>>]

\* the configurations without condition command
PlainConfigs ==
    { <<KeybindA(FALSE, FALSE, FALSE)>>, <<KeybindA(FALSE, TRUE, FALSE)>>,
      <<KeybindA(TRUE, FALSE, FALSE)>> }

Configs ==
    PlainConfigs \cup { <<KeybindA(FALSE, FALSE, TRUE)>>, <<KeybindA(TRUE, FALSE, TRUE)>> }

\* event->time_msec of the device's events; a synthesized repeat carries 0
Times == {1}

\* what a read() of the condition command's pipe can deliver
Chunks == { <<"o", "\n">>, <<"x">> }

\* the most bytes a command writes before it closes its stdout
MaxOutput == 2

\* the most condition contexts alive at once
MaxCtx == 2

Slots == 1..MaxCtx

InputModes == {"PASSTHROUGH", "MENU", "CYCLE"}

(***************************************************************************)
(* Collaborators of the keyboard code.  A handler works on a record s of    *)
(* the mutable state plus a log of the calls it made.                       *)
(***************************************************************************)
\* key-state.c
key_state_set_pressed(s, keycode, is_pressed) ==
    [s EXCEPT !.pressed = IF is_pressed THEN @ \cup {keycode} ELSE @ \ {keycode}]

key_state_store_pressed_key_as_bound(s, keycode) ==
    [s EXCEPT !.bound = @ \cup {keycode}]

key_state_corresponding_press_event_was_bound(s, keycode) == keycode \in s.bound

key_state_bound_key_remove(s, keycode) == [s EXCEPT !.bound = @ \ {keycode}]

key_state_nr_bound_keys(s) == Cardinality(s.bound)

\* action.c: the run is logged; what actions do to views is not part of this model
actions_run(s, keybind) == [s EXCEPT !.ran = Append(@, keybind)]

\* cycle.c: leaves the window switcher; the log keeps the mode it was called in
cycle_finish(s) ==
    [s EXCEPT !.cycle_finish = Append(@, s.input_mode), !.input_mode = "PASSTHROUGH"]

\* menu.c
menu_close_root(s) == [s EXCEPT !.input_mode = "PASSTHROUGH"]

\* input_method_keyboard_grab_forward_key, or else wlr_seat_keyboard_notify_key:
\* either way the focused client receives the key event
notify_key(s, keycode, state, time_msec) ==
    [s EXCEPT !.fwd = Append(@, [keycode |-> keycode, state |-> state,
                                 time_msec |-> time_msec]),
              !.client = IF state = "PRESSED" THEN @ \cup {keycode}
                         ELSE @ \ {keycode}]

(***************************************************************************)
(* Asynchronous condition check.                                            *)
(***************************************************************************)
\* keybind_condition_cleanup without the removal of the timeout source
keybind_condition_cleanup_keeping_timer(s, slot) ==
    LET ctx == s.ctxs[slot]
    IN  IF ctx.cleaned_up THEN s
        ELSE [s EXCEPT
                !.loop = @ \ (IF ctx.event_read THEN {<<"fd", slot>>} ELSE {}),
                !.closed = Append(@, slot),
                !.ctxs = [i \in DOMAIN @ \ {slot} |-> @[i]]]

\* Removes both event sources, closes the pipe (reaping the child) and frees the
\* context.  cleaned_up is false in every context that is still allocated.
keybind_condition_cleanup(s, slot) ==
    LET ctx == s.ctxs[slot]
    IN  IF ctx.cleaned_up THEN s
        ELSE [s EXCEPT
                !.loop = (@ \ (IF ctx.event_read THEN {<<"fd", slot>>} ELSE {}))
                            \ (IF ctx.event_timeout THEN {<<"timer", slot>>} ELSE {}),
                !.closed = Append(@, slot),
                !.ctxs = [i \in DOMAIN @ \ {slot} |-> @[i]]]

keybind_condition_timeout_forwarding(s, slot) ==
    LET ctx == s.ctxs[slot]
        s1 == keybind_condition_cleanup(s, slot)
    IN  notify_key(key_state_bound_key_remove(s1, ctx.keycode),
                   ctx.keycode, "PRESSED", ctx.time_msec)

keybind_condition_timeout(s, slot) == keybind_condition_cleanup(s, slot)

is_trailing_space(c) == c \in {"\n", "\r", " ", "\t"}

\* the while loop that trims trailing newlines and whitespace
RECURSIVE trimmed_len(_, _)
trimmed_len(output, len) ==
    IF len > 0 /\ is_trailing_space(output[len]) THEN trimmed_len(output, len - 1)
    ELSE len

\* the strcmp loop over condition_values
RECURSIVE values_scan(_, _, _)
values_scan(values, trimmed, i) ==
    IF i > Len(values) THEN FALSE
    ELSE IF trimmed = values[i] THEN TRUE
    ELSE values_scan(values, trimmed, i + 1)

\* ctx->keybind->condition_values.  Of a keybind that keybind_destroy freed it
\* is whatever the freed memory holds at the time of the read: rd.freed.
condition_values_read(ctx, rd) ==
    IF ctx.keybind_freed THEN rd.freed ELSE keybinds[ctx.keybind].condition_values

\* rd is what read() returned: an error (EAGAIN or another), 0 (EOF) or data
keybind_condition_readable(s, slot, rd) ==
    LET ctx == s.ctxs[slot]
    IN  CASE rd.kind = "EAGAIN" -> s
          [] rd.kind = "ERROR" -> keybind_condition_cleanup(s, slot)
          [] rd.kind = "EOF" ->
                LET output == ctx.buf
                    len == trimmed_len(output, Len(output))
                    trimmed == IF len > 0 /\ len < 4095 THEN SubSeq(output, 1, len)
                               ELSE <<>>
                    values == condition_values_read(ctx, rd)
                    matched == IF Len(values) > 0 THEN values_scan(values, trimmed, 1)
                               ELSE len > 0
                    s1 == keybind_condition_cleanup(s, slot)
                IN  IF matched THEN actions_run(s1, ctx.keybind)
                    ELSE notify_key(key_state_bound_key_remove(s1, ctx.keycode),
                                    ctx.keycode, "PRESSED", ctx.time_msec)
          [] rd.kind = "DATA" -> [s EXCEPT !.ctxs[slot].buf = @ \o rd.data]

\* slots of the heap no context is allocated in
free_slots(s) == Slots \ DOMAIN s.ctxs

\* znew(*ctx): the context is allocated in the lowest free slot
new_slot(s) == CHOOSE i \in free_slots(s) : \A j \in free_slots(s) : i <= j

\* the command is running: the context is filled in
condition_context_new(s, slot, keybind, event, sp) ==
    [s EXCEPT !.ctxs = @ @@ (slot :> [keybind |-> keybind, keycode |-> event.keycode,
                                      time_msec |-> event.time_msec, buf |-> <<>>,
                                      event_read |-> FALSE, event_timeout |-> FALSE,
                                      cleaned_up |-> FALSE, keybind_freed |-> FALSE]),
              !.spawn = Append(@, sp)]

condition_context_add_fd(s, slot) ==
    [s EXCEPT !.ctxs[slot].event_read = TRUE, !.loop = @ \cup {<<"fd", slot>>}]

condition_context_add_timer(s, slot) ==
    [s EXCEPT !.ctxs[slot].event_timeout = TRUE, !.loop = @ \cup {<<"timer", slot>>}]

\* the pipe and the timeout are registered with the event loop, or one of the
\* two fails and the context is cleaned up
condition_context_watch(s, slot, sp) ==
    IF sp = "add_fd" THEN keybind_condition_cleanup(s, slot)
    ELSE IF sp = "add_timer"
    THEN keybind_condition_cleanup(condition_context_add_fd(s, slot), slot)
    ELSE condition_context_add_timer(condition_context_add_fd(s, slot), slot)

\* sp is how the spawn goes: "ok", or what fails ("spawn", "add_fd", "add_timer").
\* The result is the changed state and the function's return value.
keybind_check_condition_async(s, keybind, event, sp) ==
    IF keybinds[keybind].condition_command = NULL_STR
    THEN [s |-> s, result |-> TRUE]
    ELSE IF sp = "spawn"
    THEN [s |-> [s EXCEPT !.spawn = Append(@, sp)], result |-> FALSE]
    ELSE IF free_slots(s) = {}
    THEN [s |-> [s EXCEPT !.overflow = TRUE], result |-> FALSE]
    ELSE [s |-> condition_context_watch(
                    condition_context_new(s, new_slot(s), keybind, event, sp),
                    new_slot(s), sp),
          result |-> FALSE]

(***************************************************************************)
(* Key events.  An event is [keycode, state, time_msec].                    *)
(***************************************************************************)
handle_key_release(s, evdev_keycode) ==
    IF ~key_state_corresponding_press_event_was_bound(s, evdev_keycode)
    THEN [s EXCEPT !.handled = "FALSE"]
    ELSE LET s1 == IF s.cancel_cycling
                   THEN cycle_finish([s EXCEPT !.cancel_cycling = FALSE])
                   ELSE s
         IN  [key_state_bound_key_remove(s1, evdev_keycode) EXCEPT !.handled = "TRUE"]

keyboard_cancel_keybind_repeat(s) == [s EXCEPT !.keybind_repeat = NULL]

\* the seat of this model has one keyboard
keyboard_cancel_all_keybind_repeats(s) == keyboard_cancel_keybind_repeat(s)

keyboard_reset_current_keybind(s) == [s EXCEPT !.cur_keybind = NULL]

\* zfree(keybind): every pointer to the keybind that is still kept dangles.  The
\* only ones kept outside the list are cur_keybind and the condition contexts'.
keybind_destroy(s) ==
    [s EXCEPT !.ctxs = [i \in DOMAIN @ |-> [@[i] EXCEPT !.keybind_freed = TRUE]]]

\* XF86Switch_VT_n - XF86Switch_VT_1 + 1, or 0 for any other keysym
vt_of(sym) == IF sym = "XF86Switch_VT_1" THEN 1 ELSE 0

RECURSIVE change_vt_scan(_, _, _)
change_vt_scan(s, translated, i) ==
    IF i > Len(translated) THEN [s |-> s, result |-> FALSE]
    ELSE LET vt == vt_of(translated[i])
         IN  IF vt >= 1 /\ vt <= 12
             THEN [s |-> [keyboard_cancel_keybind_repeat(s) EXCEPT !.vt = Append(@, vt)],
                   result |-> TRUE]
             ELSE change_vt_scan(s, translated, i + 1)

handle_change_vt_key(s, translated) == change_vt_scan(s, translated, 1)

\* the for/switch of handle_menu_keys: the first keysym that is a menu key acts
RECURSIVE handle_menu_keys_from(_, _, _)
handle_menu_keys_from(s, syms, i) ==
    IF i > Len(syms) THEN s
    ELSE IF syms[i] = "Escape" THEN menu_close_root(s)
    ELSE IF syms[i] \in {"Down", "Up", "Right", "Left", "Return", "KP_Enter"} THEN s
    ELSE handle_menu_keys_from(s, syms, i + 1)

handle_menu_keys(s, syms) == handle_menu_keys_from(s, syms, 1)

RECURSIVE cycle_view_key_from(_, _, _)
cycle_view_key_from(s, keyinfo, i) ==
    IF i > Len(keyinfo.translated) THEN [s |-> s, result |-> FALSE]
    ELSE IF keyinfo.translated[i] = "Escape"
    THEN [s |-> cycle_finish(s), result |-> TRUE]
    ELSE IF keyinfo.translated[i] \in {"Up", "Left", "Down", "Right"}
    THEN [s |-> s, result |-> TRUE]
    ELSE cycle_view_key_from(s, keyinfo, i + 1)

handle_cycle_view_key(s, keyinfo) ==
    IF keyinfo.is_modifier THEN [s |-> s, result |-> FALSE]
    ELSE cycle_view_key_from(s, keyinfo, 1)

\* the key is marked bound and the press consumed
consume_press(s, event) ==
    [key_state_store_pressed_key_as_bound(s, event.keycode) EXCEPT !.handled = "TRUE"]

\* c is what keybind_check_condition_async returned for the press
condition_checked(c, event) ==
    IF c.result THEN consume_press(actions_run(c.s, c.s.cur_keybind), event)
    ELSE consume_press(c.s, event)

condition_checked_unconditional(c, event) ==
    consume_press(actions_run(c.s, c.s.cur_keybind), event)

handle_matched_unconditional(s, event, sp) ==
    IF s.cur_keybind # NULL /\ (~locked \/ keybinds[s.cur_keybind].allow_when_locked)
    THEN IF ~keybinds[s.cur_keybind].on_release
         THEN condition_checked_unconditional(
                 keybind_check_condition_async(s, s.cur_keybind, event, sp), event)
         ELSE consume_press(s, event)
    ELSE [s EXCEPT !.handled = "FALSE"]

\* handle_compositor_keybindings once cur_keybind is assigned
handle_matched(s, event, sp) ==
    IF s.cur_keybind # NULL /\ (~locked \/ keybinds[s.cur_keybind].allow_when_locked)
    THEN IF ~keybinds[s.cur_keybind].on_release
         THEN condition_checked(
                 keybind_check_condition_async(s, s.cur_keybind, event, sp), event)
         ELSE consume_press(s, event)
    ELSE [s EXCEPT !.handled = "FALSE"]

\* the part of handle_compositor_keybindings after the menu and cycle modes:
\* the global device blacklist, then the keybinds
handle_keybinds_unconditional(s, event, keyinfo, sp) ==
    IF keyboard.blacklisted THEN [s EXCEPT !.handled = "FALSE"]
    ELSE handle_matched_unconditional(
            [s EXCEPT !.cur_keybind = match_keybinding(keybinds, keyinfo,
                                          keyboard.is_virtual, keyboard.name)],
            event, sp)

handle_keybinds(s, event, keyinfo, sp) ==
    IF keyboard.blacklisted THEN [s EXCEPT !.handled = "FALSE"]
    ELSE handle_matched(
            [s EXCEPT !.cur_keybind = match_keybinding(keybinds, keyinfo,
                                          keyboard.is_virtual, keyboard.name)],
            event, sp)

\* c is what keybind_check_condition_async returned for the release
release_condition_checked(c) ==
    [(IF c.result THEN actions_run(c.s, c.s.cur_keybind) ELSE c.s)
        EXCEPT !.handled = "TRUE"]

\* the release branch of handle_compositor_keybindings
handle_release(s, event, sp) ==
    IF s.cur_keybind # NULL /\ keybinds[s.cur_keybind].on_release
    THEN IF locked /\ ~keybinds[s.cur_keybind].allow_when_locked
         THEN [key_state_bound_key_remove(s, event.keycode)
                 EXCEPT !.cur_keybind = NULL, !.handled = "TRUE"]
         ELSE release_condition_checked(
                 keybind_check_condition_async(
                     key_state_bound_key_remove(s, event.keycode),
                     s.cur_keybind, event, sp))
    ELSE handle_key_release(s, event.keycode)

\* cyc is what handle_cycle_view_key returned
cycle_key_checked(cyc, s, event, keyinfo, sp) ==
    IF cyc.result THEN consume_press(cyc.s, event)
    ELSE handle_keybinds(s, event, keyinfo, sp)

\* goes on with the menu, the window switcher and the keybinds after a VT switch
vt_key_checked_fallthrough(vt, s, event, keyinfo, sp) ==
    IF ~locked /\ s.input_mode = "MENU"
    THEN handle_menu_keys(consume_press(vt.s, event), keyinfo.translated)
    ELSE IF ~locked /\ s.input_mode = "CYCLE"
    THEN cycle_key_checked(handle_cycle_view_key(vt.s, keyinfo), vt.s, event, keyinfo, sp)
    ELSE handle_keybinds(vt.s, event, keyinfo, sp)

\* vt is what handle_change_vt_key returned
vt_key_checked(vt, s, event, keyinfo, sp) ==
    IF vt.result
    THEN [key_state_store_pressed_key_as_bound(vt.s, event.keycode)
            EXCEPT !.handled = "TRUE_AND_VT_CHANGED"]
    ELSE IF ~locked /\ s.input_mode = "MENU"
    THEN handle_menu_keys(consume_press(s, event), keyinfo.translated)
    ELSE IF ~locked /\ s.input_mode = "CYCLE"
    THEN cycle_key_checked(handle_cycle_view_key(s, keyinfo), s, event, keyinfo, sp)
    ELSE handle_keybinds(s, event, keyinfo, sp)

\* the press branch of handle_compositor_keybindings
handle_press(s, event, keyinfo, sp) ==
    vt_key_checked(handle_change_vt_key(s, keyinfo.translated), s, event, keyinfo, sp)

handle_compositor_keybindings(s, event, sp) ==
    IF event.state = "RELEASED"
    THEN handle_release(key_state_set_pressed(s, event.keycode, FALSE), event, sp)
    ELSE handle_press(key_state_set_pressed(s, event.keycode, TRUE), event,
                      get_keyinfo(modifiers, event.keycode), sp)

\* asserts that no timer is armed; arms one if the keyboard repeats
start_keybind_repeat(s, event) ==
    IF keyboard.repeat_rate > 0 /\ keyboard.repeat_delay > 0
    THEN [s EXCEPT !.assert_failed = @ \/ (s.keybind_repeat # NULL),
                   !.keybind_repeat = event.keycode]
    ELSE [s EXCEPT !.assert_failed = @ \/ (s.keybind_repeat # NULL)]

\* handle_key without the test for modifier keys
key_handled_modifiers(s, event) ==
    IF s.handled = "TRUE_AND_VT_CHANGED" THEN s
    ELSE IF s.handled = "TRUE"
    THEN IF event.state = "PRESSED" THEN start_keybind_repeat(s, event) ELSE s
    ELSE notify_key(s, event.keycode, event.state, event.time_msec)

\* handle_key after handle_compositor_keybindings returned s.handled
key_handled(s, event) ==
    IF s.handled = "TRUE_AND_VT_CHANGED" THEN s
    ELSE IF s.handled = "TRUE"
    THEN IF ~is_modifier(modifiers, event.keycode) /\ event.state = "PRESSED"
         THEN start_keybind_repeat(s, event)
         ELSE s
    ELSE notify_key(s, event.keycode, event.state, event.time_msec)

handle_key(s, event, sp) ==
    key_handled(handle_compositor_keybindings(keyboard_cancel_keybind_repeat(s),
                                              event, sp), event)

\* wl_event_source_timer_update(keyboard->keybind_repeat, ...) after the handling
repeat_timer_update(s) == [s EXCEPT !.null_timer_update = (s.keybind_repeat = NULL)]

\* The timer callback: the synthesized event has only keycode and state set.
\* Re-arming a timer that the handling removed is a call on a null source.
handle_keybind_repeat(s, sp) ==
    repeat_timer_update(
        handle_compositor_keybindings(
            [s EXCEPT !.assert_failed = @ \/ (s.keybind_repeat = NULL)
                                          \/ ~(keyboard.repeat_rate > 0)],
            [keycode |-> s.keybind_repeat, state |-> "PRESSED", time_msec |-> 0], sp))

\* the cycle part of handle_modifiers; the modifier state is already updated
handle_modifiers(s, all_modifiers) ==
    IF s.input_mode = "CYCLE" /\ all_modifiers = 0
    THEN IF key_state_nr_bound_keys(s) > 0
         THEN [s EXCEPT !.cancel_cycling = TRUE]
         ELSE cycle_finish([s EXCEPT !.cancel_cycling = FALSE])
    ELSE s

(***************************************************************************)
(* The state machine.                                                       *)
(***************************************************************************)
\* the mutable state as a handler sees it on entry, with an empty call log
Entry ==
    [pressed |-> pressed, bound |-> bound, cur_keybind |-> cur_keybind,
     cancel_cycling |-> cancel_cycling, input_mode |-> input_mode,
     keybind_repeat |-> keybind_repeat, ctxs |-> ctxs, loop |-> loop,
     client |-> client,
     handled |-> "-", ran |-> <<>>, fwd |-> <<>>, spawn |-> <<>>, closed |-> <<>>,
     vt |-> <<>>, cycle_finish |-> <<>>, assert_failed |-> FALSE,
     null_timer_update |-> FALSE, overflow |-> FALSE]

\* the record of a handler run: its inputs, what held on entry, the calls it made.
\* slot is the condition context a pipe or timer event is for, keybind its keybind,
\* buf the output it had collected and freed whether its keybind was destroyed.
Event(kind, keycode, state, time_msec, slot, s) ==
    [kind |-> kind, keycode |-> keycode, state |-> state, time_msec |-> time_msec,
     slot |-> slot,
     keybind |-> IF slot = NULL THEN NULL ELSE ctxs[slot].keybind,
     buf |-> IF slot = NULL THEN <<>> ELSE ctxs[slot].buf,
     freed |-> IF slot = NULL THEN FALSE ELSE ctxs[slot].keybind_freed,
     was_bound |-> keycode \in bound,
     pre_cur |-> cur_keybind, pre_mode |-> input_mode, pre_cancel |-> cancel_cycling,
     pre_repeat |-> keybind_repeat, was_held |-> keycode \in held,
     vt |-> s.vt, closed |-> s.closed,
     handled |-> s.handled, ran |-> s.ran, fwd |-> s.fwd, spawn |-> s.spawn,
     cycle_finish |-> s.cycle_finish, assert_failed |-> s.assert_failed,
     null_timer_update |-> s.null_timer_update]

\* The handler ran and left s.  sp is how a spawn in it was to go: a failure
\* happens only in a handler that spawns.
Commit(s, kind, keycode, state, time_msec, slot, sp) ==
    /\ ~s.overflow
    /\ sp # "ok" => s.spawn # <<>>
    /\ pressed' = s.pressed
    /\ bound' = s.bound
    /\ cur_keybind' = s.cur_keybind
    /\ cancel_cycling' = s.cancel_cycling
    /\ input_mode' = s.input_mode
    /\ keybind_repeat' = s.keybind_repeat
    /\ ctxs' = s.ctxs
    /\ loop' = s.loop
    /\ client' = s.client
    /\ ev' = Event(kind, keycode, state, time_msec, slot, s)

SpawnOutcomes == {"ok", "spawn", "add_fd", "add_timer"}

\* wlr_keyboard emits a key event: a key of the keyboard goes down or up
KeyEvent ==
    \E keycode \in Keycodes, state \in {"PRESSED", "RELEASED"}, time_msec \in Times,
       sp \in SpawnOutcomes :
        /\ (state = "PRESSED") = (keycode \notin held)
        /\ held' = IF state = "PRESSED" THEN held \cup {keycode} ELSE held \ {keycode}
        /\ Commit(handle_key(Entry, [keycode |-> keycode, state |-> state,
                                     time_msec |-> time_msec], sp),
                  "key", keycode, state, time_msec, NULL, sp)
        /\ UNCHANGED <<keybinds, keyboard, modifiers, locked, match_vars, cli_vars, tile_vars>>

\* the key-repeat timer of the keyboard fires
RepeatTimer ==
    /\ keybind_repeat # NULL
    /\ \E sp \in SpawnOutcomes :
        Commit(handle_keybind_repeat(Entry, sp),
               "repeat", keybind_repeat, "PRESSED", 0, NULL, sp)
    /\ UNCHANGED <<keybinds, keyboard, modifiers, held, locked, match_vars, cli_vars, tile_vars>>

DataReads == { [kind |-> "DATA", data |-> c] : c \in Chunks }

\* the pipe of a condition command becomes readable (or is closed by the command)
ConditionReadable ==
    \E slot \in Slots, rd \in {[kind |-> "EAGAIN"], [kind |-> "ERROR"], [kind |-> "EOF"]}
                               \cup DataReads :
        /\ <<"fd", slot>> \in loop
        /\ slot \in DOMAIN ctxs
        /\ ~ctxs[slot].keybind_freed
        /\ rd.kind = "DATA" => Len(ctxs[slot].buf) + Len(rd.data) <= MaxOutput
        /\ Commit(keybind_condition_readable(Entry, slot, rd),
                  rd.kind, ctxs[slot].keycode, "PRESSED", ctxs[slot].time_msec,
                  slot, "ok")
        /\ UNCHANGED <<keybinds, keyboard, modifiers, held, locked, match_vars, cli_vars, tile_vars>>

\* the 2000 ms timer of a condition context fires
ConditionTimeout ==
    \E slot \in Slots :
        /\ <<"timer", slot>> \in loop
        /\ slot \in DOMAIN ctxs
        /\ Commit(keybind_condition_timeout(Entry, slot),
                  "timeout", ctxs[slot].keycode, "PRESSED", ctxs[slot].time_msec,
                  slot, "ok")
        /\ UNCHANGED <<keybinds, keyboard, modifiers, held, locked, match_vars, cli_vars, tile_vars>>

\* wlr_keyboard emits a modifiers event after its modifier state changed
Modifiers ==
    \E m \in ModMasks \ {modifiers} :
        /\ modifiers' = m
        /\ Commit(handle_modifiers(Entry, m), "modifiers", NULL, "-", 0, NULL, "ok")
        /\ UNCHANGED <<keybinds, keyboard, held, locked, match_vars, cli_vars, tile_vars>>

\* what no handler of the keyboard code did
Quiet(kind) == Event(kind, NULL, "-", 0, NULL, Entry)

\* the session lock manager locks or unlocks the session
SessionLock ==
    /\ locked' = ~locked
    /\ ev' = Quiet("lock")
    /\ UNCHANGED <<keybinds, keyboard, modifiers, held, pressed, bound, cur_keybind,
                   cancel_cycling, input_mode, keybind_repeat, ctxs, loop, client,
                   match_vars, cli_vars, tile_vars>>

\* a menu is opened or closed, the window switcher started or ended, by an
\* action or by the pointer
InputMode ==
    \E m \in InputModes \ {input_mode} :
        /\ input_mode' = m
        /\ ev' = Quiet("input_mode")
        /\ UNCHANGED <<keybinds, keyboard, modifiers, held, pressed, bound, cur_keybind,
                       cancel_cycling, locked, keybind_repeat, ctxs, loop, client,
                       match_vars, cli_vars, tile_vars>>

\* the control channel's "enable <id>" / "disable <id>" on a toggleable keybind
keybind_set_enabled(keybind, enabled) == [keybind EXCEPT !.enabled = enabled]

KeybindCommand ==
    \E i \in 1..Len(keybinds), enabled \in BOOLEAN :
        /\ keybinds[i].toggleable
        /\ keybinds[i].enabled # enabled
        /\ keybinds' = [keybinds EXCEPT ![i] = keybind_set_enabled(@, enabled)]
        /\ ev' = Quiet("keybind_command")
        /\ UNCHANGED <<keyboard, modifiers, held, pressed, bound, cur_keybind,
                       cancel_cycling, input_mode, locked, keybind_repeat, ctxs, loop,
                       client, match_vars, cli_vars, tile_vars>>

\* the configurations a reconfigure changes between
ReconfConfigs == { <<KeybindA(FALSE, FALSE, FALSE)>>, <<KeybindA(FALSE, FALSE, TRUE)>> }

\* what the memory of a destroyed keybind can hold where condition_values was
FreedValues == { <<>>, << <<"o">> >>, << <<"x">> >> }

FreedReads ==
    { [kind |-> "EAGAIN"], [kind |-> "ERROR"] } \cup DataReads
        \cup { [kind |-> "EOF", freed |-> v] : v \in FreedValues }

\* SIGHUP: the keybind list is destroyed and rebuilt from rc.xml, cur_keybind is
\* reset and the key-repeat timers are cancelled
Reconfigure ==
    \E kbl \in ReconfConfigs :
        /\ keybinds' = kbl
        /\ Commit(keyboard_cancel_all_keybind_repeats(
                      keyboard_reset_current_keybind(keybind_destroy(Entry))),
                  "reconfigure", NULL, "-", 0, NULL, "ok")
        /\ UNCHANGED <<keyboard, modifiers, held, locked, match_vars, cli_vars, tile_vars>>

\* the pipe of a condition command whose keybind a reconfigure destroyed becomes
\* readable
FreedConditionReadable ==
    \E slot \in Slots, rd \in FreedReads :
        /\ <<"fd", slot>> \in loop
        /\ slot \in DOMAIN ctxs
        /\ ctxs[slot].keybind_freed
        /\ rd.kind = "DATA" => Len(ctxs[slot].buf) + Len(rd.data) <= MaxOutput
        /\ Commit(keybind_condition_readable(Entry, slot, rd),
                  rd.kind, ctxs[slot].keycode, "PRESSED", ctxs[slot].time_msec,
                  slot, "ok")
        /\ UNCHANGED <<keybinds, keyboard, modifiers, held, locked, match_vars, cli_vars, tile_vars>>

\* no call of match_keybinding recorded yet
NoMatch == [called |-> FALSE, keyinfo |-> get_keyinfo(0, 1), is_virtual |-> FALSE,
            device_name |-> NULL_STR]

\* no invocation of the command line, no desktop
NoCli == [pc |-> "none"]

NoDesk == [pc |-> "none"]

\* seat and keyboard are set up, no event has arrived
KeyboardInit ==
    /\ modifiers = 0
    /\ held = {}
    /\ pressed = {}
    /\ bound = {}
    /\ cur_keybind = NULL
    /\ cancel_cycling = FALSE
    /\ input_mode = "PASSTHROUGH"
    /\ locked = FALSE
    /\ keybind_repeat = NULL
    /\ ctxs = <<>>
    /\ loop = {}
    /\ client = {}
    /\ ev = [kind |-> "init", keycode |-> NULL, state |-> "-", time_msec |-> 0,
             slot |-> NULL, keybind |-> NULL, buf |-> <<>>, freed |-> FALSE,
             was_bound |-> FALSE, pre_cur |-> NULL, pre_mode |-> "PASSTHROUGH",
             pre_cancel |-> FALSE, pre_repeat |-> NULL, was_held |-> FALSE,
             vt |-> <<>>, closed |-> <<>>,
             handled |-> "-", ran |-> <<>>, fwd |-> <<>>, spawn |-> <<>>,
             cycle_finish |-> <<>>, assert_failed |-> FALSE,
             null_timer_update |-> FALSE]
    /\ m_in = NoMatch
    /\ m_out = NULL

\* the state after seat and keyboard are set up, before any event
InitState ==
    /\ cli = NoCli
    /\ desk = NoDesk
    /\ KeyboardInit

Init ==
    /\ keybinds \in Configs
    /\ keyboard \in Keyboards
    /\ InitState

\* Keybinds with and without condition command under key events, key repeat,
\* session lock and the control channel; the modifiers stay as they are and
\* no menu or window switcher is open.
Next ==
    \/ KeyEvent
    \/ RepeatTimer
    \/ ConditionReadable
    \/ ConditionTimeout
    \/ SessionLock
    \/ KeybindCommand

Spec == Init /\ [][Next]_vars

(***************************************************************************)
(* SpecModes: keybinds without condition command under changing modifiers,  *)
(* menu and window switcher.                                                *)
(***************************************************************************)
InitModes ==
    /\ keybinds \in PlainConfigs
    /\ keyboard \in Keyboards
    /\ InitState

NextModes ==
    \/ KeyEvent
    \/ RepeatTimer
    \/ Modifiers
    \/ InputMode
    \/ SessionLock

SpecModes == InitModes /\ [][NextModes]_vars

(***************************************************************************)
(* SpecKeys: SpecModes on a keyboard with a modifier key.                   *)
(***************************************************************************)
\* the evdev keycode of Super_L
ModifierKeycodes == {3}

\* wlr_keyboard emits a key event of a modifier key
ModifierKeyEvent ==
    \E keycode \in ModifierKeycodes, state \in {"PRESSED", "RELEASED"},
       time_msec \in Times :
        /\ (state = "PRESSED") = (keycode \notin held)
        /\ held' = IF state = "PRESSED" THEN held \cup {keycode} ELSE held \ {keycode}
        /\ Commit(handle_key(Entry, [keycode |-> keycode, state |-> state,
                                     time_msec |-> time_msec], "ok"),
                  "key", keycode, state, time_msec, NULL, "ok")
        /\ UNCHANGED <<keybinds, keyboard, modifiers, locked, match_vars, cli_vars, tile_vars>>

NextKeys ==
    \/ KeyEvent
    \/ ModifierKeyEvent
    \/ RepeatTimer
    \/ Modifiers
    \/ InputMode
    \/ SessionLock

SpecKeys == InitModes /\ [][NextKeys]_vars

(***************************************************************************)
(* SpecReconf: keybinds with and without condition command under            *)
(* reconfigure.                                                             *)
(***************************************************************************)
InitReconf ==
    /\ keybinds \in ReconfConfigs
    /\ keyboard = CHOOSE k \in Keyboards : ~k.is_virtual /\ ~k.blacklisted
    /\ InitState

NextReconf ==
    \/ KeyEvent
    \/ RepeatTimer
    \/ ConditionReadable
    \/ FreedConditionReadable
    \/ ConditionTimeout
    \/ Reconfigure

SpecReconf == InitReconf /\ [][NextReconf]_vars

(***************************************************************************)
(* SpecMatch: match_keybinding as a function of the keybind list, the key   *)
(* and the device.                                                          *)
(***************************************************************************)
\* the most keybinds in a configuration
MaxBinds == 2

KeybindOnA == Keybind(0, <<"a">>, <<9>>)

\* the keybinds a configuration is built from: other modifiers, keysym only,
\* another keycode, disabled, inhibited, and with device lists
MatchBinds ==
    { KeybindOnA,
      Keybind(1, <<"a">>, <<9>>),
      Keybind(0, <<"b">>, <<>>),
      Keybind(0, <<"c", "a">>, <<10>>),
      [KeybindOnA EXCEPT !.enabled = FALSE],
      [KeybindOnA EXCEPT !.inhibited = TRUE],
      [KeybindOnA EXCEPT !.device_blacklist = << <<"K", "b">> >>],
      [KeybindOnA EXCEPT !.device_blacklist = << NULL_STR >>],
      [KeybindOnA EXCEPT !.device_whitelist = << NULL_STR, <<"K", "b">> >>],
      [KeybindOnA EXCEPT !.device_whitelist = << NULL_STR >>] }

MatchConfigs == UNION { [1..n -> MatchBinds] : n \in 0..MaxBinds }

\* what get_keyinfo can return for a key of some keymap under some modifiers
KeyInfos ==
    { [xkb_keycode |-> k, translated |-> tr, raw |-> rw, modifiers |-> m,
       is_modifier |-> FALSE] :
        k \in {9, 10}, tr \in {<<>>, <<"A">>, <<"b", "a">>},
        rw \in {<<"a">>, <<"b">>}, m \in ModMasks }

\* keyboard->base.wlr_input_device->name
DeviceNames == { NULL_STR, <<"k", "b">>, <<"k">> }

InitMatch ==
    /\ keybinds \in MatchConfigs
    /\ keyboard = CHOOSE k \in Keyboards : ~k.is_virtual /\ ~k.blacklisted
    /\ InitState

\* the press of a run reaches match_keybinding
MatchPress ==
    \E keyinfo \in KeyInfos, is_virtual \in BOOLEAN, device_name \in DeviceNames :
        /\ ~m_in.called
        /\ m_in' = [called |-> TRUE, keyinfo |-> keyinfo, is_virtual |-> is_virtual,
                    device_name |-> device_name]
        /\ m_out' = match_keybinding(keybinds, keyinfo, is_virtual, device_name)
        /\ UNCHANGED <<main_vars, cli_vars, tile_vars>>

NextMatch == MatchPress

SpecMatch == InitMatch /\ [][NextMatch]_vars

(***************************************************************************)
(* SpecCli: an invocation of the binary with a control flag                 *)
(* (src/src/main.c).  p is the process and the world it acts on: its        *)
(* environment, the command files of XDG_RUNTIME_DIR, the signals sent.     *)
(***************************************************************************)
EXIT_FAILURE == 1

\* the exit status of a process that has not exited
RUNNING == -1

digit_value ==
    ("0" :> 0) @@ ("1" :> 1) @@ ("2" :> 2) @@ ("3" :> 3) @@ ("4" :> 4) @@
    ("5" :> 5) @@ ("6" :> 6) @@ ("7" :> 7) @@ ("8" :> 8) @@ ("9" :> 9)

RECURSIVE atoi_digits(_, _, _)
atoi_digits(str, i, acc) ==
    IF i > Len(str) \/ str[i] \notin DOMAIN digit_value THEN acc
    ELSE atoi_digits(str, i + 1, acc * 10 + digit_value[str[i]])

\* atoi(3): an optional sign, then the leading digits; 0 if there is none
atoi(str) ==
    IF Len(str) > 0 /\ str[1] = "-" THEN 0 - atoi_digits(str, 2, 0)
    ELSE IF Len(str) > 0 /\ str[1] = "+" THEN atoi_digits(str, 2, 0)
    ELSE atoi_digits(str, 1, 0)

\* exit(3)
exit(p, status) == [p EXCEPT !.pc = "exited", !.status = status]

\* kill(2)
kill(p, pid, signal) ==
    [p EXCEPT !.signals = Append(@, [pid |-> pid, signal |-> signal]),
              !.ops = Append(@, "kill")]

send_signal_to_labwc_pid(p, signal) ==
    IF p.env.LABWC_PID = NULL_STR THEN exit(p, EXIT_FAILURE)
    ELSE IF atoi(p.env.LABWC_PID) = 0 THEN exit(p, EXIT_FAILURE)
    ELSE [kill(p, atoi(p.env.LABWC_PID), signal) EXCEPT !.pc = "signalled"]

\* fopen(cmd_file, "w"): the file is created or truncated, or NULL is returned
fopen_w(p, file) ==
    IF ~p.writable THEN [p EXCEPT !.ops = Append(@, "fopen")]
    ELSE [p EXCEPT !.files[file] = <<>>, !.file = file, !.open = TRUE,
                   !.stream = <<>>, !.ops = Append(@, "fopen")]

\* fprintf(f, ...): the line goes to the buffer of the stream
fprintf(p, line) ==
    [p EXCEPT !.stream = Append(@, line), !.ops = Append(@, "fprintf"),
              !.pc = "written"]

\* a close that drops what the stream has buffered
fclose_unflushed(p) ==
    [p EXCEPT !.stream = <<>>, !.open = FALSE, !.ops = Append(@, "fclose"),
              !.pc = "closed"]

\* fclose(f): the buffer is written to the file
fclose(p) ==
    [p EXCEPT !.files[p.file] = @ \o p.stream, !.stream = <<>>, !.open = FALSE,
              !.ops = Append(@, "fclose"), !.pc = "closed"]

\* f is what fopen returned
command_file_opened(p) ==
    IF ~p.open THEN exit(p, EXIT_FAILURE) ELSE [p EXCEPT !.pc = "opened"]

\* the checks of the environment and the fopen the three send functions start with
send_command_open(p, file) ==
    IF p.env.XDG_RUNTIME_DIR = NULL_STR THEN exit(p, EXIT_FAILURE)
    ELSE IF p.env.LABWC_PID = NULL_STR THEN exit(p, EXIT_FAILURE)
    ELSE command_file_opened(fopen_w(p, file))

\* the process at p.pc takes its next step in a send function
send_command_step(p, file, line) ==
    CASE p.pc = "start" -> send_command_open(p, file)
      [] p.pc = "opened" -> fprintf(p, line)
      [] p.pc = "written" -> fclose(p)
      [] p.pc = "closed" -> send_signal_to_labwc_pid(p, "SIGUSR1")

\* "%s %s\n", or "%s\n" without argument
command_line(command, arg) ==
    IF arg # NULL_STR THEN <<command, arg>> ELSE <<command>>

send_keybind_command(p, command, id) ==
    send_command_step(p, "labwc-keybind-cmd", <<command, id>>)

send_tiling_command(p, command, arg) ==
    send_command_step(p, "labwc-tiling-cmd", command_line(command, arg))

send_workspace_command(p, command, arg) ==
    send_command_step(p, "labwc-workspace-cmd", command_line(command, arg))

\* the cases of main's option switch that send a command, and the exit(0)
\* after the send function returned
main(p) ==
    IF p.pc = "signalled" THEN exit(p, 0)
    ELSE CASE p.flag.family = "keybind" ->
                send_keybind_command(p, p.flag.command, p.flag.arg)
           [] p.flag.family = "tiling" ->
                send_tiling_command(p, p.flag.command, p.flag.arg)
           [] p.flag.family = "workspace" ->
                send_workspace_command(p, p.flag.command, p.flag.arg)

\* optarg of the options that take an argument
Id == <<"k", "1">>

WorkspaceArg == <<"2">>

GridModeArg == <<"o", "n">>

Flag(option, family, command, arg) ==
    [option |-> option, family |-> family, command |-> command, arg |-> arg]

\* the control flags of long_options with what main passes on for them
Flags ==
    { Flag("--enable-keybind", "keybind", "enable", Id),
      Flag("--disable-keybind", "keybind", "disable", Id),
      Flag("--toggle-keybind", "keybind", "toggle", Id),
      Flag("--workspace-switch", "workspace", "switch", WorkspaceArg),
      Flag("--workspace-next", "workspace", "next", NULL_STR),
      Flag("--workspace-prev", "workspace", "prev", NULL_STR),
      Flag("--enable-tiling", "tiling", "enable", NULL_STR),
      Flag("--disable-tiling", "tiling", "disable", NULL_STR),
      Flag("--toggle-tiling", "tiling", "toggle", NULL_STR),
      Flag("--tiling-grid-mode", "tiling", "grid-mode", GridModeArg),
      Flag("--recalculate-tiling", "tiling", "recalculate", NULL_STR) }

CmdFiles == {"labwc-keybind-cmd", "labwc-tiling-cmd", "labwc-workspace-cmd"}

\* the command file of a family
CmdFile(family) ==
    CASE family = "keybind" -> "labwc-keybind-cmd"
      [] family = "tiling" -> "labwc-tiling-cmd"
      [] family = "workspace" -> "labwc-workspace-cmd"

\* values of getenv("XDG_RUNTIME_DIR") and getenv("LABWC_PID")
RuntimeDirs == { NULL_STR, <<"/", "r">> }

LabwcPids == { NULL_STR, <<"4", "2">>, <<"0">>, <<"x">>, <<"7", "x">>, <<"-", "1">> }

\* a line an earlier invocation left in a command file
OldLine == <<"old">>

\* the process at the entry of main
CliStarts ==
    { [pc |-> "start", flag |-> flag,
       env |-> [XDG_RUNTIME_DIR |-> dir, LABWC_PID |-> pid],
       writable |-> writable,
       files |-> [f \in CmdFiles |-> old], files0 |-> [f \in CmdFiles |-> old],
       file |-> "", open |-> FALSE, stream |-> <<>>,
       signals |-> <<>>, ops |-> <<>>, status |-> RUNNING] :
       flag \in Flags, dir \in RuntimeDirs, pid \in LabwcPids,
       writable \in BOOLEAN, old \in { <<>>, <<OldLine>> } }

\* getopt_long returned the option: the environment is checked, the file opened
CliOpen ==
    /\ cli.pc = "start"
    /\ cli' = main(cli)
    /\ UNCHANGED <<main_vars, match_vars, tile_vars>>

\* the command line is printed to the stream
CliWrite ==
    /\ cli.pc = "opened"
    /\ cli' = main(cli)
    /\ UNCHANGED <<main_vars, match_vars, tile_vars>>

\* the stream is closed
CliClose ==
    /\ cli.pc = "written"
    /\ cli' = main(cli)
    /\ UNCHANGED <<main_vars, match_vars, tile_vars>>

\* LABWC_PID is parsed and signalled
CliSignal ==
    /\ cli.pc = "closed"
    /\ cli' = main(cli)
    /\ UNCHANGED <<main_vars, match_vars, tile_vars>>

\* the send function returned to main
CliExit ==
    /\ cli.pc = "signalled"
    /\ cli' = main(cli)
    /\ UNCHANGED <<main_vars, match_vars, tile_vars>>

InitCli ==
    /\ keybinds = <<>>
    /\ keyboard = CHOOSE k \in Keyboards : ~k.is_virtual /\ ~k.blacklisted
    /\ KeyboardInit
    /\ desk = NoDesk
    /\ cli \in CliStarts

NextCli ==
    \/ CliOpen
    \/ CliWrite
    \/ CliClose
    \/ CliSignal
    \/ CliExit

SpecCli == InitCli /\ [][NextCli]_vars

(***************************************************************************)
(* SpecTile: automatic tiling (src/src/desktop.c).  d is the server state   *)
(* desktop_arrange_tiled works on: the views in for_each_view order, the    *)
(* outputs, the tiling switches, the manually resized view and its stored   *)
(* geometry.  A view is its index in d.views.                               *)
(***************************************************************************)
\* struct wlr_box
Box(x, y, width, height) == [x |-> x, y |-> y, width |-> width, height |-> height]

\* struct border (ssd_thickness)
Border(top, right, bottom, left) ==
    [top |-> top, right |-> right, bottom |-> bottom, left |-> left]

abs(a) == IF a < 0 THEN 0 - a ELSE a

\* integer division of C: truncation toward zero (the divisor is positive)
c_div(a, b) == IF a >= 0 THEN a \div b ELSE 0 - ((0 - a) \div b)

\* the skip tests every loop over the views starts with
tile_candidate(view) ==
    /\ ~(view.minimized \/ view.fullscreen \/ view.always_on_top
            \/ view.always_on_bottom)
    /\ view.fixedPosition # "TRUE"
    /\ view.tile # "FALSE"

\* for_each_view(view, &server->views, LAB_VIEW_CRITERIA_CURRENT_WORKSPACE)
on_current_workspace(d, i) == d.views[i].workspace = d.workspace

\* the views the loops over an output get to: candidates on the output
tiled_on(d, o) ==
    { i \in DOMAIN d.views :
        /\ on_current_workspace(d, i)
        /\ tile_candidate(d.views[i])
        /\ d.views[i].output = o }

\* the first loop: the candidates on the current workspace, on any output
tiled_count(d) ==
    Cardinality({ i \in DOMAIN d.views :
                    on_current_workspace(d, i) /\ tile_candidate(d.views[i]) })

prefer_vertical(d, o) == \E i \in tiled_on(d, o) : d.views[i].tileDirection = "TRUE"

prefer_horizontal(d, o) == \E i \in tiled_on(d, o) : d.views[i].tileDirection = "FALSE"

\* (double)usable.width / usable.height > 1.5, and > 1.3.  The quotient of two
\* ints of this size and both literals round to doubles that compare as the
\* exact fractions do (13/10 rounds to the double the literal 1.3 denotes).
aspect_above_3_2(usable) == 2 * usable.width > 3 * usable.height

aspect_above_13_10(usable) == 10 * usable.width > 13 * usable.height

Shape(cols, rows, use_vertical_split) ==
    [cols |-> cols, rows |-> rows, use_vertical_split |-> use_vertical_split]

\* the table for the views adjacent to the resized view
layout_for_adjacent(output_count, use_vertical_split) ==
    CASE output_count = 1 -> Shape(1, 1, use_vertical_split)
      [] output_count = 2 -> Shape(2, 1, use_vertical_split)
      [] output_count = 3 -> Shape(2, 2, use_vertical_split)
      [] output_count = 4 -> Shape(2, 2, use_vertical_split)
      [] OTHER -> Shape(3, c_div(output_count + 2, 3), use_vertical_split)

\* the table on output_count with the tileDirection rules and the aspect of
\* the area left out
layout_without_rules(output_count, pv, ph, usable, use_vertical_split) ==
    layout_for_adjacent(output_count, use_vertical_split)

\* The table on output_count, used twice: before and after the resized view is
\* taken out of the count.  use_vertical_split is set and never cleared.
layout_for_count(output_count, pv, ph, usable, use_vertical_split) ==
    CASE output_count = 1 -> Shape(1, 1, use_vertical_split)
      [] output_count = 2 -> Shape(2, 1, use_vertical_split)
      [] output_count = 3 ->
            IF pv /\ ~ph THEN Shape(2, 2, TRUE)
            ELSE IF ph /\ ~pv THEN Shape(2, 2, use_vertical_split)
            ELSE IF aspect_above_3_2(usable) THEN Shape(2, 2, use_vertical_split)
            ELSE Shape(2, 2, TRUE)
      [] output_count = 4 -> Shape(2, 2, use_vertical_split)
      [] output_count = 5 ->
            IF pv /\ ~ph THEN Shape(2, 3, use_vertical_split)
            ELSE IF ph /\ ~pv THEN Shape(3, 2, use_vertical_split)
            ELSE IF aspect_above_13_10(usable) THEN Shape(3, 2, use_vertical_split)
            ELSE Shape(2, 3, use_vertical_split)
      [] output_count = 6 -> Shape(3, 2, use_vertical_split)
      [] OTHER -> Shape(3, c_div(output_count + 2, 3), use_vertical_split)

last_row_count(output_count, cols) ==
    IF output_count % cols = 0 THEN cols ELSE output_count % cols

\* the box of a view with its decoration
full_box(geo, margin) ==
    Box(geo.x - margin.left, geo.y - margin.top,
        geo.width + margin.left + margin.right,
        geo.height + margin.top + margin.bottom)

clamp_left(b, usable) ==
    IF b.x < usable.x THEN [b EXCEPT !.width = @ - (usable.x - b.x), !.x = usable.x]
    ELSE b

clamp_top(b, usable) ==
    IF b.y < usable.y THEN [b EXCEPT !.height = @ - (usable.y - b.y), !.y = usable.y]
    ELSE b

clamp_right(b, usable) ==
    IF b.x + b.width > usable.x + usable.width
    THEN [b EXCEPT !.width = usable.x + usable.width - b.x]
    ELSE b

clamp_bottom(b, usable) ==
    IF b.y + b.height > usable.y + usable.height
    THEN [b EXCEPT !.height = usable.y + usable.height - b.y]
    ELSE b

\* "Ensure geometry is within bounds": the four ifs in their order
clamp_to_usable(b, usable) ==
    clamp_bottom(clamp_right(clamp_top(clamp_left(b, usable), usable), usable), usable)

\* view.c: the geometry is requested from the client (pending); current follows
\* when the client commits.  moved records that the run called it for the view.
view_move_resize(d, i, geo) ==
    [d EXCEPT !.views[i].pending = geo, !.views[i].moved = TRUE,
              !.moves = Append(@, <<i, geo>>)]

\* view.c: view_maximize(view, VIEW_AXIS_NONE, false)
view_maximize_none(d, i) == [d EXCEPT !.views[i].maximized = "NONE"]

\* view.c
view_set_untiled(d, i) == [d EXCEPT !.views[i].tiled = FALSE]

\* "Unmaximize and untile if needed"
unmaximize_untile(d, i) ==
    IF d.views[i].maximized # "NONE"
    THEN (IF d.views[i].tiled THEN view_set_untiled(view_maximize_none(d, i), i)
          ELSE view_maximize_none(d, i))
    ELSE IF d.views[i].tiled THEN view_set_untiled(d, i)
    ELSE d

\* the test for a resized view to preserve without its test of grid mode
anchor_honoured_in_grid(d, o) ==
    /\ d.resized_view # NULL
    /\ d.views[d.resized_view].output = o
    /\ d.views[d.resized_view].workspace = d.workspace
    /\ ~d.views[d.resized_view].minimized

\* "Check if there's a manually resized window we should preserve"
anchor_honoured(d, o) ==
    /\ ~d.tiling_grid_mode
    /\ d.resized_view # NULL
    /\ d.views[d.resized_view].output = o
    /\ d.views[d.resized_view].workspace = d.workspace
    /\ ~d.views[d.resized_view].minimized

\* resized_full: the stored geometry with the decoration, clamped to usable
resized_full_clamped(d, usable) ==
    clamp_to_usable(full_box(d.resized_view_geometry,
                             d.views[d.resized_view].margin), usable)

\* view_full of a view: its current geometry with the decoration
view_full(d, i) == full_box(d.views[i].current, d.views[i].margin)

\* "Check if windows share an edge or overlap" of view box vf with the resized box rf
shares_edge(vf, rf, gap) ==
    \/ abs(vf.y - (rf.y + rf.height)) <= gap + 5
    \/ abs((vf.y + vf.height) - rf.y) <= gap + 5
    \/ (vf.y < rf.y + rf.height /\ vf.y + vf.height > rf.y)
    \/ abs(vf.x - (rf.x + rf.width)) <= gap + 5
    \/ abs((vf.x + vf.width) - rf.x) <= gap + 5
    \/ (vf.x < rf.x + rf.width /\ vf.x + vf.width > rf.x)

\* the adjacent_views list, as the set of its views
adjacent_views(d, o, rf) ==
    { i \in tiled_on(d, o) :
        i # d.resized_view /\ shares_edge(view_full(d, i), rf, d.gap) }

\* "Determine layout area for adjacent windows"
remaining_space(d, adj, rf, usable) ==
    LET gap == d.gap
        resized_left == rf.x
        resized_right == rf.x + rf.width
        resized_top == rf.y
        resized_bottom == rf.y + rf.height
        left_space == resized_left - usable.x
        right_space == (usable.x + usable.width) - resized_right
        top_space == resized_top - usable.y
        bottom_space == (usable.y + usable.height) - resized_bottom
        adjacent_on_right ==
            \E i \in adj : view_full(d, i).x >= resized_right - gap - 5
        adjacent_on_left ==
            \E i \in adj :
                view_full(d, i).x + view_full(d, i).width <= resized_left + gap + 5
        adjacent_on_bottom ==
            \E i \in adj : view_full(d, i).y >= resized_bottom - gap - 5
        adjacent_on_top ==
            \E i \in adj :
                view_full(d, i).y + view_full(d, i).height <= resized_top + gap + 5
        right == Box(resized_right + gap, usable.y, right_space - gap, usable.height)
        left == Box(usable.x, usable.y, left_space - gap, usable.height)
        bottom == Box(usable.x, resized_bottom + gap, usable.width, bottom_space - gap)
        top == Box(usable.x, usable.y, usable.width, top_space - gap)
        left_area == left_space * usable.height
        right_area == right_space * usable.height
        top_area == top_space * usable.width
        bottom_area == bottom_space * usable.width
    IN  IF adjacent_on_right /\ ~adjacent_on_left THEN right
        ELSE IF adjacent_on_left /\ ~adjacent_on_right THEN left
        ELSE IF adjacent_on_bottom /\ ~adjacent_on_top THEN bottom
        ELSE IF adjacent_on_top /\ ~adjacent_on_bottom THEN top
        ELSE IF /\ right_area >= left_area /\ right_area >= top_area
                /\ right_area >= bottom_area /\ right_space > gap THEN right
        ELSE IF left_area >= top_area /\ left_area >= bottom_area /\ left_space > gap
             THEN left
        ELSE IF bottom_area >= top_area /\ bottom_space > gap THEN bottom
        ELSE IF top_space > gap THEN top
        ELSE usable

\* The layout the tile loop works with: the count, the shape, the cell sizes,
\* the area, whether a resized view is preserved, and its adjacent views.
Layout(output_count, shape, cell_width, cell_height, layout_area, resized, adj) ==
    [output_count |-> output_count, cols |-> shape.cols, rows |-> shape.rows,
     use_vertical_split |-> shape.use_vertical_split,
     last_row_count |-> last_row_count(output_count, shape.cols),
     cell_width |-> cell_width, cell_height |-> cell_height,
     layout_area |-> layout_area, resized |-> resized, adjacent |-> adj]

\* without a resized view: cells of the usable area
layout_plain(output_count, shape, usable, gap) ==
    Layout(output_count, shape,
           c_div(usable.width - (shape.cols + 1) * gap, shape.cols),
           c_div(usable.height - (shape.rows + 1) * gap, shape.rows),
           usable, FALSE, {})

\* "Recalculate cell sizes for remaining space"
layout_remaining(output_count, shape, rem, usable, gap, adj) ==
    IF rem.width > 0 /\ rem.height > 0
    THEN IF /\ rem.width > (shape.cols + 1) * gap
            /\ rem.height > (shape.rows + 1) * gap
         THEN Layout(output_count, shape,
                     c_div(rem.width - (shape.cols + 1) * gap, shape.cols),
                     c_div(rem.height - (shape.rows + 1) * gap, shape.rows),
                     rem, TRUE, adj)
         ELSE Layout(output_count, shape, c_div(rem.width, shape.cols),
                     c_div(rem.height, shape.rows), rem, TRUE, adj)
    ELSE Layout(output_count, shape, 0, 0, usable, TRUE, adj)

\* with a resized view: the adjacent views share the remaining space; with no
\* adjacent view the cells keep the size 0 they were given
layout_resized(d, output_count, shape, usable, rf, adj) ==
    IF adj # {}
    THEN layout_remaining(Cardinality(adj),
                          layout_for_adjacent(Cardinality(adj),
                                              shape.use_vertical_split),
                          remaining_space(d, adj, rf, usable), usable, d.gap, adj)
    ELSE Layout(output_count, shape, 0, 0, usable, TRUE, {})

\* "Overlap detected - adjust resized window to avoid it": one other view's box
\* vf against the resized box rf; acc is geo with needs_adjustment
overlap_adjusted(acc, rf, vf, m, gap) ==
    IF \/ rf.x + rf.width <= vf.x \/ rf.x >= vf.x + vf.width
       \/ rf.y + rf.height <= vf.y \/ rf.y >= vf.y + vf.height
    THEN acc
    ELSE LET h == rf.x < vf.x + vf.width /\ rf.x + rf.width > vf.x
             v == rf.y < vf.y + vf.height /\ rf.y + rf.height > vf.y
             new_x == vf.x + vf.width + gap
             new_y == vf.y + vf.height + gap
             gh == IF ~h THEN acc.geo
                   ELSE IF rf.x < vf.x
                   THEN [acc.geo EXCEPT !.width = vf.x - rf.x - m.left - m.right]
                   ELSE [acc.geo EXCEPT
                            !.x = new_x + m.left,
                            !.width = rf.x + rf.width - new_x - m.left - m.right]
         IN  [geo |-> IF ~v THEN gh
                      ELSE IF rf.y < vf.y
                      THEN [gh EXCEPT !.height = vf.y - rf.y - m.top - m.bottom]
                      ELSE [gh EXCEPT
                              !.y = new_y + m.top,
                              !.height = rf.y + rf.height - new_y - m.top - m.bottom],
              needs_adjustment |-> acc.needs_adjustment \/ h \/ v]

\* "Check for overlaps with other windows and adjust if necessary": the loop
\* over the other views from view i on
RECURSIVE overlaps_adjusted(_, _, _, _, _, _)
overlaps_adjusted(d, o, adj, rf, i, acc) ==
    IF i > Len(d.views) THEN acc
    ELSE IF i = d.resized_view \/ i \notin tiled_on(d, o) \/ i \in adj
    THEN overlaps_adjusted(d, o, adj, rf, i + 1, acc)
    ELSE overlaps_adjusted(d, o, adj, rf, i + 1,
            overlap_adjusted(acc, rf, view_full(d, i),
                             d.views[d.resized_view].margin, d.gap))

\* "If there's empty space and no overlaps, expand the resized window to fill it"
expanded(d, adj, rf, usable, acc) ==
    LET gap == d.gap
        m == d.views[d.resized_view].margin
        empty_left == rf.x - usable.x
        empty_right == (usable.x + usable.width) - (rf.x + rf.width)
        empty_top == rf.y - usable.y
        empty_bottom == (usable.y + usable.height) - (rf.y + rf.height)
        has_empty_space == \/ empty_left > gap \/ empty_right > gap
                           \/ empty_top > gap \/ empty_bottom > gap
        can_expand_left ==
            ~\E i \in adj : view_full(d, i).x + view_full(d, i).width <= rf.x + gap
        can_expand_right ==
            ~\E i \in adj : view_full(d, i).x >= rf.x + rf.width - gap
        can_expand_top ==
            ~\E i \in adj : view_full(d, i).y + view_full(d, i).height <= rf.y + gap
        can_expand_bottom ==
            ~\E i \in adj : view_full(d, i).y >= rf.y + rf.height - gap
    IN  IF ~(has_empty_space /\ ~acc.needs_adjustment) THEN acc
        ELSE IF /\ can_expand_left /\ empty_left >= empty_right
                /\ empty_left >= empty_top /\ empty_left >= empty_bottom
                /\ empty_left > gap
        THEN [geo |-> [acc.geo EXCEPT !.x = usable.x + m.left,
                                      !.width = @ + empty_left - m.left - m.right],
              needs_adjustment |-> TRUE]
        ELSE IF /\ can_expand_right /\ empty_right >= empty_top
                /\ empty_right >= empty_bottom /\ empty_right > gap
        THEN [geo |-> [acc.geo EXCEPT !.width = @ + empty_right - m.left - m.right],
              needs_adjustment |-> TRUE]
        ELSE IF can_expand_top /\ empty_top >= empty_bottom /\ empty_top > gap
        THEN [geo |-> [acc.geo EXCEPT !.y = usable.y + m.top,
                                      !.height = @ + empty_top - m.top - m.bottom],
              needs_adjustment |-> TRUE]
        ELSE IF can_expand_bottom /\ empty_bottom > gap
        THEN [geo |-> [acc.geo EXCEPT !.height = @ + empty_bottom - m.top - m.bottom],
              needs_adjustment |-> TRUE]
        ELSE acc

\* "Update stored geometry if adjusted", then view_move_resize(view, geo)
resized_view_committed(d, usable, acc) ==
    view_move_resize(
        IF acc.needs_adjustment
        THEN [d EXCEPT !.resized_view_geometry = clamp_to_usable(acc.geo, usable)]
        ELSE d,
        d.resized_view, clamp_to_usable(acc.geo, usable))

\* "Handle manually resized window": the branch of the tile loop for it
resized_view_handled(d, o, adj, usable) ==
    resized_view_committed(d, usable,
        expanded(d, adj,
                 full_box(d.resized_view_geometry, d.views[d.resized_view].margin),
                 usable,
                 overlaps_adjusted(d, o, adj,
                     full_box(d.resized_view_geometry,
                              d.views[d.resized_view].margin),
                     1, [geo |-> d.resized_view_geometry,
                         needs_adjustment |-> FALSE])))

\* "Special case: 3 windows with vertical split"
vertical_split_geo(L, idx, m, gap) ==
    LET a == L.layout_area
        right_width == c_div(a.width - 3 * gap, 2)
        right_height == c_div(a.height - 3 * gap, 2)
    IN  IF idx = 0
        THEN Box(a.x + gap + m.left, a.y + gap + m.top,
                 c_div(a.width - 3 * gap, 2) - m.left - m.right,
                 a.height - 2 * gap - m.top - m.bottom)
        ELSE Box(a.x + 2 * gap + right_width + m.left,
                 a.y + idx * gap + (idx - 1) * right_height + m.top,
                 right_width - m.left - m.right,
                 right_height - m.top - m.bottom)

\* "Standard grid layout"
grid_geo(L, idx, m, gap) ==
    LET a == L.layout_area
        col == idx % L.cols
        row == c_div(idx, L.cols)
        is_last_row == row = L.rows - 1
        spans == is_last_row /\ L.last_row_count < L.cols
        width0 == IF spans
                  THEN c_div(a.width - (L.last_row_count + 1) * gap, L.last_row_count)
                  ELSE L.cell_width
        x_pos == a.x + (col + 1) * gap + col * width0
        expected_right == a.x + a.width - gap
        width == IF col = L.cols - 1 /\ ~is_last_row /\ x_pos + width0 < expected_right
                 THEN width0 + (expected_right - (x_pos + width0))
                 ELSE width0
        y_pos == a.y + (row + 1) * gap + row * L.cell_height
        expected_bottom == a.y + a.height - gap
        height == IF is_last_row /\ y_pos + L.cell_height < expected_bottom
                  THEN L.cell_height + (expected_bottom - (y_pos + L.cell_height))
                  ELSE L.cell_height
    IN  Box(x_pos + m.left, y_pos + m.top,
            width - m.left - m.right, height - m.top - m.bottom)

\* the geometry of the idx-th tiled view
tile_geo(L, idx, m, gap) ==
    IF L.use_vertical_split /\ L.output_count = 3 /\ ~L.resized
    THEN vertical_split_geo(L, idx, m, gap)
    ELSE grid_geo(L, idx, m, gap)

\* "Tile views": the loop from view i on, idx views placed so far
RECURSIVE tile_views(_, _, _, _, _, _)
tile_views(d, o, usable, L, i, idx) ==
    IF i > Len(d.views) THEN d
    ELSE IF i \notin tiled_on(d, o)
    THEN tile_views(d, o, usable, L, i + 1, idx)
    ELSE IF L.resized /\ L.adjacent # {} /\ i \notin L.adjacent /\ i # d.resized_view
    THEN tile_views(d, o, usable, L, i + 1, idx)
    ELSE IF L.resized /\ i = d.resized_view
    THEN tile_views(resized_view_handled(d, o, L.adjacent, usable),
                    o, usable, L, i + 1, idx)
    ELSE tile_views(view_move_resize(unmaximize_untile(d, i), i,
                                     tile_geo(L, idx, d.views[i].margin, d.gap)),
                    o, usable, L, i + 1, idx + 1)

\* the tile loop of an output under its layout, which the run records
tiled_with(d, o, usable, L) ==
    tile_views([d EXCEPT !.layouts[o] = L], o, usable, L, 1, 0)

\* one output of the loop over the outputs, from the layout table on
output_tiled(d, o, usable, output_count, shape) ==
    IF anchor_honoured(d, o)
    THEN IF output_count - 1 = 0
         THEN view_move_resize(d, d.resized_view, d.resized_view_geometry)
         ELSE tiled_with(d, o, usable,
                layout_resized(d, output_count - 1,
                    layout_for_count(output_count - 1, prefer_vertical(d, o),
                                     prefer_horizontal(d, o), usable,
                                     shape.use_vertical_split),
                    usable, resized_full_clamped(d, usable),
                    adjacent_views(d, o, resized_full_clamped(d, usable))))
    ELSE tiled_with(d, o, usable,
            layout_plain(output_count,
                layout_for_count(output_count, prefer_vertical(d, o),
                                 prefer_horizontal(d, o), usable,
                                 shape.use_vertical_split),
                usable, d.gap))

\* "Group views by output": the loop over the outputs from output o on
RECURSIVE outputs_tiled(_, _)
outputs_tiled(d, o) ==
    IF o > Len(d.outputs) THEN d
    ELSE IF ~d.outputs[o].usable \/ tiled_on(d, o) = {}
    THEN outputs_tiled(d, o + 1)
    ELSE outputs_tiled(
            output_tiled(d, o, d.outputs[o].area, Cardinality(tiled_on(d, o)),
                layout_for_count(Cardinality(tiled_on(d, o)), prefer_vertical(d, o),
                                 prefer_horizontal(d, o), d.outputs[o].area, FALSE)),
            o + 1)

\* "Expand bounding box to include this window"
bounding(occupied, vf) ==
    LET l == IF vf.x < occupied.x
             THEN [occupied EXCEPT !.width = @ + (occupied.x - vf.x), !.x = vf.x]
             ELSE occupied
        t == IF vf.y < l.y
             THEN [l EXCEPT !.height = @ + (l.y - vf.y), !.y = vf.y]
             ELSE l
        r == IF vf.x + vf.width > occupied.x + occupied.width
             THEN [t EXCEPT !.width = vf.x + vf.width - t.x]
             ELSE t
    IN  IF vf.y + vf.height > occupied.y + occupied.height
        THEN [r EXCEPT !.height = vf.y + vf.height - r.y]
        ELSE r

\* "Find the bounding box of all tiled windows" of the views from i on; the
\* output has a tiled view, and the first one starts the box
RECURSIVE occupied_box(_, _, _, _, _)
occupied_box(d, o, i, has_occupied, occupied) ==
    IF i > Len(d.views) THEN occupied
    ELSE IF i \notin tiled_on(d, o)
    THEN occupied_box(d, o, i + 1, has_occupied, occupied)
    ELSE IF ~has_occupied THEN occupied_box(d, o, i + 1, TRUE, view_full(d, i))
    ELSE occupied_box(d, o, i + 1, TRUE, bounding(occupied, view_full(d, i)))

\* "Check if there's significant empty space (more than gap)"
empty_space(occupied, usable, gap) ==
    \/ occupied.x - usable.x > gap
    \/ (usable.x + usable.width) - (occupied.x + occupied.width) > gap
    \/ occupied.y - usable.y > gap
    \/ (usable.y + usable.height) - (occupied.y + occupied.height) > gap

\* the four "can expand" tests of a view and what they do to new_geo, which
\* starts as view->current; expanded tells whether one of them applied
fill_geo(view, occupied, usable, gap) ==
    LET vf == full_box(view.current, view.margin)
        empty_left == occupied.x - usable.x
        empty_right == (usable.x + usable.width) - (occupied.x + occupied.width)
        empty_top == occupied.y - usable.y
        empty_bottom == (usable.y + usable.height) - (occupied.y + occupied.height)
        on_left == empty_left > gap /\ abs(vf.x - occupied.x) <= gap + 5
        on_right == /\ empty_right > gap
                    /\ abs((vf.x + vf.width) - (occupied.x + occupied.width)) <= gap + 5
        on_top == empty_top > gap /\ abs(vf.y - occupied.y) <= gap + 5
        on_bottom == /\ empty_bottom > gap
                     /\ abs((vf.y + vf.height) - (occupied.y + occupied.height))
                            <= gap + 5
        g1 == IF on_left
              THEN [view.current EXCEPT !.x = usable.x + view.margin.left,
                                        !.width = @ + (empty_left - gap)]
              ELSE view.current
        g2 == IF on_right THEN [g1 EXCEPT !.width = @ + (empty_right - gap)] ELSE g1
        g3 == IF on_top
              THEN [g2 EXCEPT !.y = usable.y + view.margin.top,
                              !.height = @ + (empty_top - gap)]
              ELSE g2
    IN  [expanded |-> on_left \/ on_right \/ on_top \/ on_bottom,
         new_geo |-> clamp_to_usable(
                        IF on_bottom
                        THEN [g3 EXCEPT !.height = @ + (empty_bottom - gap)]
                        ELSE g3, usable)]

\* view_move_resize(view, new_geo), windows_expanded++, "Recalculate occupied area"
fill_applied(st, i, fg) ==
    IF fg.expanded
    THEN [d |-> view_move_resize(st.d, i, fg.new_geo),
          occupied |-> bounding(st.occupied,
                                full_box(fg.new_geo, st.d.views[i].margin)),
          windows_expanded |-> st.windows_expanded + 1]
    ELSE st

\* "Find all windows that can expand to fill empty space": the loop from view i on
RECURSIVE fill_views(_, _, _, _)
fill_views(st, o, usable, i) ==
    IF i > Len(st.d.views) THEN st
    ELSE IF i \notin tiled_on(st.d, o) \/ st.d.resized_view = i
    THEN fill_views(st, o, usable, i + 1)
    ELSE fill_views(fill_applied(st, i,
                        fill_geo(st.d.views[i], st.occupied, usable, st.d.gap)),
                    o, usable, i + 1)

\* the end of an output's pass: no window expanded gives the output up; the
\* pass is recorded as having found empty space and expanded that many windows
fill_output_done(st) ==
    [d |-> [st.d EXCEPT !.passes[Len(st.d.passes)] =
                [empty |-> TRUE, expanded |-> @.expanded + st.windows_expanded]],
     space_filled |-> st.windows_expanded = 0]

\* one output of a pass, with its bounding box
fill_output(r, o, usable, occupied) ==
    IF empty_space(occupied, usable, r.d.gap)
    THEN fill_output_done(
            fill_views([d |-> r.d, occupied |-> occupied, windows_expanded |-> 0],
                       o, usable, 1))
    ELSE r

\* one pass over the outputs from output o on
RECURSIVE fill_outputs(_, _)
fill_outputs(r, o) ==
    IF o > Len(r.d.outputs) THEN r
    ELSE IF ~r.d.outputs[o].usable \/ tiled_on(r.d, o) = {}
    THEN fill_outputs(r, o + 1)
    ELSE fill_outputs(
            fill_output(r, o, r.d.outputs[o].area,
                        occupied_box(r.d, o, 1, FALSE, Box(0, 0, 0, 0))),
            o + 1)

\* max_iterations
max_iterations == 10

\* "Proactively fill empty space - iterate until usable area is filled": the
\* passes from pass iteration on; r is what the pass before left
\* the loop with the test iteration <= max_iterations
RECURSIVE fill_passes_inclusive(_, _)
fill_passes_inclusive(r, iteration) ==
    IF r.space_filled \/ iteration > max_iterations
    THEN [r.d EXCEPT !.iterations = iteration]
    ELSE fill_passes_inclusive(
            fill_outputs([d |-> [r.d EXCEPT !.passes = Append(@, [empty |-> FALSE,
                                                                 expanded |-> 0])],
                          space_filled |-> TRUE], 1),
            iteration + 1)

RECURSIVE fill_passes(_, _)
fill_passes(r, iteration) ==
    IF r.space_filled \/ iteration >= max_iterations
    THEN [r.d EXCEPT !.iterations = iteration]
    ELSE fill_passes(
            fill_outputs([d |-> [r.d EXCEPT !.passes = Append(@, [empty |-> FALSE,
                                                                 expanded |-> 0])],
                          space_filled |-> TRUE], 1),
            iteration + 1)

\* desktop_arrange_tiled without its test of the tiling switch
desktop_arrange_always(d) ==
    IF tiled_count(d) = 0 THEN d
    ELSE IF d.tiling_grid_mode THEN outputs_tiled(d, 1)
    ELSE fill_passes([d |-> outputs_tiled(d, 1), space_filled |-> FALSE], 0)

\* desktop_arrange_tiled(server)
desktop_arrange_tiled(d) ==
    IF ~d.tiling_mode THEN d
    ELSE IF tiled_count(d) = 0 THEN d
    ELSE IF d.tiling_grid_mode THEN outputs_tiled(d, 1)
    ELSE fill_passes([d |-> outputs_tiled(d, 1), space_filled |-> FALSE], 0)

(***************************************************************************)
(* The servers desktop_arrange_tiled is run on.                             *)
(***************************************************************************)
MaxViews == 7

MaxRuns == 2

Gaps == {10}

NoMargin == Border(0, 0, 0, 0)

\* a titlebar and three borders
SsdMargin == Border(20, 2, 2, 2)

Margins == {NoMargin, SsdMargin}

Wide == Box(0, 0, 1000, 600)

Tall == Box(0, 0, 600, 1000)

Odd == Box(0, 0, 1001, 601)

\* smaller than the gaps around one cell
Tiny == Box(0, 0, 15, 15)

Areas == {Wide, Tall, Odd, Tiny}

NoLayout ==
    [output_count |-> 0, cols |-> 0, rows |-> 0, use_vertical_split |-> FALSE,
     last_row_count |-> 0, cell_width |-> 0, cell_height |-> 0,
     layout_area |-> Box(0, 0, 0, 0), resized |-> FALSE, adjacent |-> {}]

\* a mapped view that nothing keeps from being tiled
NewView(o, current, margin) ==
    [minimized |-> FALSE, fullscreen |-> FALSE, always_on_top |-> FALSE,
     always_on_bottom |-> FALSE, fixedPosition |-> "UNSPECIFIED",
     tile |-> "UNSPECIFIED", tileDirection |-> "UNSPECIFIED",
     output |-> o, workspace |-> 1, current |-> current, pending |-> current,
     margin |-> margin, maximized |-> "NONE", tiled |-> FALSE, moved |-> FALSE]

\* where a view is before the run: floating where it was mapped
Floating(area, i, m) ==
    Box(area.x + 30 * i + 20 + m.left, area.y + 30 * i + 20 + m.top, 300, 200)

\* where a view is before the run: where a run on n views without
\* preferences left it
Tiled(area, n, i, m, gap) ==
    tile_geo(layout_plain(n, layout_for_count(n, FALSE, FALSE, area, FALSE), area, gap),
             i - 1, m, gap)

Starts == {"floating", "tiled", "maximized"}

StartGeo(start, area, n, i, m, gap) ==
    IF start = "tiled" THEN Tiled(area, n, i, m, gap)
    ELSE IF start = "maximized" /\ i = 1
    THEN Box(area.x + m.left, area.y + m.top, area.width - m.left - m.right,
             area.height - m.top - m.bottom)
    ELSE IF start = "maximized" /\ i = 2
    THEN Box(area.x + m.left, area.y + m.top, (area.width \div 2) - m.left - m.right,
             area.height - m.top - m.bottom)
    ELSE Floating(area, i, m)

\* the tileDirection rules of the first two views
Dirs ==
    { <<"UNSPECIFIED", "UNSPECIFIED">>, <<"TRUE", "UNSPECIFIED">>,
      <<"FALSE", "UNSPECIFIED">>, <<"TRUE", "FALSE">> }

StartView(start, area, n, i, m, gap, dirs) ==
    [NewView(1, StartGeo(start, area, n, i, m, gap), m) EXCEPT
        !.tileDirection = IF i <= 2 THEN dirs[i] ELSE "UNSPECIFIED",
        !.maximized = IF start = "maximized" /\ i = 1 THEN "BOTH" ELSE "NONE",
        !.tiled = start = "maximized" /\ i = 2]

\* struct server, as far as tiling reads and writes it
Server(tiling_mode, tiling_grid_mode, views, outputs, resized_view, geo, gap) ==
    [pc |-> "start", runs |-> 0,
     tiling_mode |-> tiling_mode, tiling_grid_mode |-> tiling_grid_mode,
     views |-> views, outputs |-> outputs, workspace |-> 1, gap |-> gap,
     resized_view |-> resized_view, resized_view_geometry |-> geo,
     layouts |-> [o \in DOMAIN outputs |-> NoLayout],
     moves |-> <<>>, iterations |-> 0, passes |-> <<>>,
     before |-> [views |-> views, resized_view_geometry |-> geo]]

Output(usable, area) == [usable |-> usable, area |-> area]

\* no resized view: every count, shape preference, area and mode
PlainStarts ==
    { Server(TRUE, grid,
             [i \in 1..n |-> StartView(start, area, n, i, m, gap, dirs)],
             <<Output(TRUE, area)>>, NULL, Box(0, 0, 0, 0), gap) :
        grid \in BOOLEAN, n \in 0..MaxViews, start \in Starts, area \in Areas,
        m \in Margins, gap \in Gaps, dirs \in Dirs }

\* the geometries the user resized a view to: the right half, the area in gaps,
\* a corner, more than the right half, the top band, the whole usable area
ResizedGeos ==
    { Box(505, 10, 485, 580), Box(10, 10, 980, 580), Box(10, 10, 300, 200),
      Box(300, 10, 690, 580), Box(10, 10, 980, 400), Wide }

\* where the other views are when a view was resized: "left" stacks them in
\* the left half, "corner" puts them in the bottom right corner, "mixed" puts
\* the first right of a resized corner view and the others in the bottom
\* right corner
ResizedStarts == {"floating", "tiled", "left", "corner", "mixed"}

OtherGeo(start, n, i, k, gap) ==
    IF start = "tiled" THEN Tiled(Wide, n, i, NoMargin, gap)
    ELSE IF start = "left"
    THEN tile_geo(layout_plain(n - 1, Shape(1, n - 1, FALSE), Box(0, 0, 505, 600), gap),
                  k, NoMargin, gap)
    ELSE IF start = "corner" THEN Box(600 + 40 * k, 400 + 20 * k, 200, 150)
    ELSE IF start = "mixed"
    THEN (IF k = 0 THEN Box(320, 10, 300, 200)
          ELSE Box(600 + 40 * k, 400 + 20 * k, 200, 150))
    ELSE Floating(Wide, i, NoMargin)

MaxResizedViews == 4

\* a resized view among n views on the wide output
ResizedViewStarts ==
    { Server(TRUE, grid,
             [i \in 1..(IF a <= n THEN n ELSE a) |->
                NewView(1, IF i = a THEN geo
                           ELSE OtherGeo(start, IF a <= n THEN n ELSE a, i,
                                         IF i < a THEN i - 1 ELSE i - 2, gap),
                        NoMargin)],
             <<Output(TRUE, Wide)>>, a, geo, gap) :
        grid \in BOOLEAN, n \in 1..MaxResizedViews,
        a \in 1..MaxResizedViews, geo \in ResizedGeos,
        start \in ResizedStarts, gap \in Gaps }

\* what keeps a view from being tiled, or from being looked at at all
Kinds ==
    { "minimized", "fullscreen", "always_on_top", "always_on_bottom",
      "fixedPosition", "tile", "workspace" }

Untiled(kind, current) ==
    [NewView(1, current, NoMargin) EXCEPT
        !.minimized = kind = "minimized",
        !.fullscreen = kind = "fullscreen",
        !.always_on_top = kind = "always_on_top",
        !.always_on_bottom = kind = "always_on_bottom",
        !.fixedPosition = IF kind = "fixedPosition" THEN "TRUE" ELSE "UNSPECIFIED",
        !.tile = IF kind = "tile" THEN "FALSE" ELSE "UNSPECIFIED",
        !.workspace = IF kind = "workspace" THEN 2 ELSE 1,
        !.maximized = IF kind = "fullscreen" THEN "BOTH" ELSE "NONE"]

\* tiling switched off or on, a view that is not tiled, which may be the
\* resized one, and up to two views that are, floating over it or away from
\* it in the bottom right corner
UntiledStarts ==
    { Server(mode, grid,
             [i \in 1..(n + 1) |->
                IF i = 1 THEN Untiled(kind, Box(100, 100, 400, 300))
                ELSE NewView(1, IF start = "corner"
                                THEN Box(600 + 40 * (i - 2), 450 + 20 * (i - 2), 200, 100)
                                ELSE Floating(Wide, i, NoMargin), NoMargin)],
             <<Output(TRUE, Wide)>>, a,
             IF a = NULL THEN Box(0, 0, 0, 0) ELSE Box(100, 100, 400, 300), gap) :
        mode \in BOOLEAN, grid \in BOOLEAN, kind \in Kinds, n \in 0..2,
        a \in {NULL, 1}, start \in {"floating", "corner"}, gap \in Gaps }

Second == Box(1000, 0, 800, 600)

\* two outputs, the second usable or not
TwoOutputStarts ==
    { Server(TRUE, grid,
             [i \in 1..(n1 + n2) |->
                IF i <= n1 THEN NewView(1, Floating(Wide, i, NoMargin), NoMargin)
                ELSE NewView(2, Floating(Second, i, NoMargin), NoMargin)],
             <<Output(TRUE, Wide), Output(u2, Second)>>, NULL, Box(0, 0, 0, 0), gap) :
        grid \in BOOLEAN, u2 \in BOOLEAN, n1 \in 0..2, n2 \in 1..2, gap \in Gaps }

ServerStarts == PlainStarts \cup ResizedViewStarts \cup UntiledStarts \cup TwoOutputStarts

\* what a run starts from: nothing moved yet, and the state to compare with
run_start(d) ==
    [d EXCEPT !.moves = <<>>, !.iterations = 0, !.passes = <<>>,
              !.layouts = [o \in DOMAIN d.outputs |-> NoLayout],
              !.views = [i \in DOMAIN d.views |-> [d.views[i] EXCEPT !.moved = FALSE]],
              !.before = [views |-> [i \in DOMAIN d.views |->
                                        [d.views[i] EXCEPT !.moved = FALSE]],
                          resized_view_geometry |-> d.resized_view_geometry]]

\* a caller of desktop_arrange_tiled: a view mapped, unmapped, resized, a
\* tiling command
ArrangeTiled ==
    /\ desk.pc # "none"
    /\ desk.runs < MaxRuns
    /\ desk' = [desktop_arrange_tiled(run_start(desk)) EXCEPT
                    !.pc = "arranged", !.runs = @ + 1]
    /\ UNCHANGED <<main_vars, match_vars, cli_vars>>

\* the clients commit the geometry they were asked for
ClientsCommit ==
    /\ desk.pc = "arranged"
    /\ \E i \in DOMAIN desk.views : desk.views[i].pending # desk.views[i].current
    /\ desk' = [desk EXCEPT
                    !.pc = "committed",
                    !.views = [i \in DOMAIN desk.views |->
                                [desk.views[i] EXCEPT !.current = desk.views[i].pending]]]
    /\ UNCHANGED <<main_vars, match_vars, cli_vars>>

InitTile ==
    /\ keybinds = <<>>
    /\ keyboard = CHOOSE k \in Keyboards : ~k.is_virtual /\ ~k.blacklisted
    /\ KeyboardInit
    /\ cli = NoCli
    /\ desk \in ServerStarts

NextTile == ArrangeTiled \/ ClientsCommit

SpecTile == InitTile /\ [][NextTile]_vars

(***************************************************************************)
(* Focus and the top layer: desktop.c.  The server d has the stacking     *)
(* order d.order of its views, topmost first, the current workspace, the   *)
(* input mode, the surface with keyboard focus (a surface is named by its  *)
(* view) and the list d.offered of the views that were offered focus.      *)
(***************************************************************************)
view_is_always_on_top(view) == view.always_on_top

view_is_always_on_bottom(view) == view.always_on_bottom

\* output_is_usable(output): an output that exists and is enabled
output_is_usable(d, o) == o # NULL /\ d.outputs[o].usable

\* seat_focus_surface(seat, surface)
seat_focus_surface(d, surface) == [d EXCEPT !.focused_surface = surface]

\* view_offer_focus(view): the client is told it may take the focus
view_offer_focus(d, v) == [d EXCEPT !.offered = Append(@, v)]

\* set_or_offer_focus without the test of the surface that has the focus
set_or_offer_always(d, v) ==
    IF d.views[v].wants_focus \in {"ALWAYS", "LIKELY"}
    THEN seat_focus_surface(d, v)
    ELSE IF d.views[v].wants_focus = "UNLIKELY"
    THEN view_offer_focus(d, v)
    ELSE d

set_or_offer_focus(d, v) ==
    IF d.views[v].wants_focus = "ALWAYS"
    THEN IF v # d.focused_surface THEN seat_focus_surface(d, v) ELSE d
    ELSE IF d.views[v].wants_focus \in {"LIKELY", "UNLIKELY"}
    THEN view_offer_focus(d, v)
    ELSE d

\* workspaces_switch_to(target, update_focus) with update_focus false
workspaces_switch_to(d, target) ==
    IF target = d.workspace THEN d ELSE [d EXCEPT !.workspace = target]

\* view_get_modal_dialog(view): NULL, or the modal dialog among its children
view_get_modal_dialog(d, v) == d.views[v].dialog

\* view_move_to_front(view): the view comes to the front and its dialog with
\* it, on top of it
view_move_to_front(d, v) ==
    LET family == IF view_get_modal_dialog(d, v) = NULL THEN <<v>>
                  ELSE <<view_get_modal_dialog(d, v), v>>
    IN  [d EXCEPT !.order =
            family \o SelectSeq(d.order, LAMBDA w : \A k \in DOMAIN family : family[k] # w)]

\* view_minimize(view, minimized): a minimized view is unmapped, and
\* "unminimizing will map the view"
view_minimize(d, v, minimized) ==
    [d EXCEPT !.views[v].minimized = minimized, !.views[v].mapped = ~minimized]

\* the steps of desktop_focus_view after its early returns
focus_accepted(d, v, raise) ==
    LET switched == IF ~view_is_always_on_top(d.views[v])
                        /\ ~view_is_always_on_bottom(d.views[v])
                    THEN workspaces_switch_to(d, d.views[v].workspace)
                    ELSE d
        raised == IF raise THEN view_move_to_front(switched, v) ELSE switched
    IN  set_or_offer_focus(raised,
            IF view_get_modal_dialog(d, v) # NULL THEN view_get_modal_dialog(d, v)
            ELSE v)

\* desktop_focus_view with the test of view->mapped left out
focus_view_unmapped(d, v, raise) ==
    IF ~d.views[v].surface THEN d
    ELSE IF d.input_mode = "CYCLE" THEN d
    ELSE IF d.views[v].minimized
    THEN focus_accepted(view_minimize(d, v, FALSE), v, TRUE)
    ELSE focus_accepted(d, v, raise)

\* desktop_focus_view(view, raise).  view_minimize(view, false) on a minimized
\* view clears the flag and maps the view, "which triggers a call to this
\* function again (with raise=true)": that call finds the view mapped and not
\* minimized
desktop_focus_view(d, v, raise) ==
    IF ~d.views[v].surface THEN d
    ELSE IF d.input_mode = "CYCLE" THEN d
    ELSE IF d.views[v].minimized
    THEN focus_accepted(view_minimize(d, v, FALSE), v, TRUE)
    ELSE IF ~d.views[v].mapped THEN d
    ELSE focus_accepted(d, v, raise)

\* "And disable them again when there is a fullscreen view without any views
\* above it": the loop over the views from position k of the stacking order
RECURSIVE top_layers_disabled(_, _, _)
top_layers_disabled(d, k, outputs_covered) ==
    IF k > Len(d.order) THEN d
    ELSE IF \/ ~on_current_workspace(d, d.order[k])
            \/ d.views[d.order[k]].minimized
            \/ ~output_is_usable(d, d.views[d.order[k]].output)
    THEN top_layers_disabled(d, k + 1, outputs_covered)
    ELSE top_layers_disabled(
            IF /\ d.views[d.order[k]].fullscreen
               /\ d.views[d.order[k]].outputs \cap outputs_covered = {}
            THEN [d EXCEPT !.outputs[d.views[d.order[k]].output].top_enabled = FALSE]
            ELSE d,
            k + 1, outputs_covered \cup d.views[d.order[k]].outputs)

\* "Enable all top layers"
top_layers_enabled(d) ==
    [d EXCEPT !.outputs = [o \in DOMAIN d.outputs |->
                            IF d.outputs[o].usable
                            THEN [d.outputs[o] EXCEPT !.top_enabled = TRUE]
                            ELSE d.outputs[o]]]

desktop_update_top_layer_visibility(d) ==
    top_layers_disabled(top_layers_enabled(d), 1, {})

(***************************************************************************)
(* The servers desktop_focus_view and desktop_update_top_layer_visibility  *)
(* are run on.                                                             *)
(***************************************************************************)
MaxLayerViews == 2

FocusPolicies == {"ALWAYS", "LIKELY", "UNLIKELY", "NEVER"}

\* a view is created without a surface, gets one, is mapped, and is unmapped
\* while it is minimized
ViewStates == {"no surface", "unmapped", "minimized", "mapped"}

Bands == {"none", "top", "bottom"}

SceneView(state, fullscreen, band, workspace, output, outputs, wants_focus, dialog) ==
    [surface |-> state # "no surface", mapped |-> state = "mapped",
     minimized |-> state = "minimized", fullscreen |-> fullscreen,
     always_on_top |-> band = "top", always_on_bottom |-> band = "bottom",
     workspace |-> workspace, output |-> output, outputs |-> outputs,
     wants_focus |-> wants_focus, dialog |-> dialog]

SceneOutput(usable, top_enabled) == [usable |-> usable, top_enabled |-> top_enabled]

NoCall == [op |-> "none", view |-> NULL, raise |-> FALSE]

Scene(views, order, workspace, mode, focused_surface, outputs) ==
    [pc |-> "scene", views |-> views, order |-> order,
     workspace |-> workspace, input_mode |-> mode,
     focused_surface |-> focused_surface, offered |-> <<>>, outputs |-> outputs,
     call |-> NoCall,
     before |-> [views |-> views, order |-> order, workspace |-> workspace,
                 focused_surface |-> focused_surface, offered |-> <<>>,
                 outputs |-> outputs]]

\* view 1 in every state, band, workspace and policy; view 2 a view of
\* workspace 1, or the modal dialog of view 1; view 3 a view of workspace 1
FocusStarts ==
    { Scene(<<SceneView(state, FALSE, band, workspace, 1, {1}, policy,
                        IF dialog THEN 2 ELSE NULL),
              SceneView("mapped", FALSE, band, IF dialog THEN workspace ELSE 1,
                        1, {1}, policy2, NULL),
              SceneView("mapped", FALSE, "none", 1, 1, {1}, "ALWAYS", NULL)>>,
            order, 1, mode, focused, <<SceneOutput(TRUE, TRUE)>>) :
        state \in ViewStates, band \in Bands, workspace \in 1..2,
        policy \in FocusPolicies, dialog \in BOOLEAN, policy2 \in FocusPolicies,
        order \in {<<1, 2, 3>>, <<3, 2, 1>>, <<3, 1, 2>>},
        mode \in {"PASSTHROUGH", "CYCLE", "MENU"}, focused \in 0..3 }

\* where a view is: on output 1, on output 2, on both with either as its
\* output, on the disabled output 3
Places == { <<1, {1}>>, <<2, {2}>>, <<1, {1, 2}>>, <<2, {1, 2}>>, <<3, {3}>> }

LayerViews ==
    { SceneView(state, fullscreen, "none", workspace, place[1], place[2],
                "ALWAYS", NULL) :
        state \in {"mapped", "minimized"}, fullscreen \in BOOLEAN,
        workspace \in 1..2, place \in Places }

\* 0..MaxLayerViews views, stacked in the order of their numbers
LayerStarts ==
    { Scene(views, [i \in DOMAIN views |-> i], 1, "PASSTHROUGH", NULL,
            <<SceneOutput(TRUE, top), SceneOutput(TRUE, top),
              SceneOutput(FALSE, top)>>) :
        views \in UNION { [1..n -> { w \in LayerViews : ~(w.fullscreen /\ w.minimized) }] :
                            n \in 0..MaxLayerViews },
        top \in BOOLEAN }

Snapshot(d) ==
    [views |-> d.views, order |-> d.order, workspace |-> d.workspace,
     focused_surface |-> d.focused_surface, offered |-> d.offered,
     outputs |-> d.outputs]

\* a caller of desktop_focus_view: a click, a foreign-toplevel request, an action
FocusView ==
    /\ desk.pc = "scene"
    /\ \E v \in DOMAIN desk.views, raise \in BOOLEAN :
        desk' = [desktop_focus_view(desk, v, raise) EXCEPT
                    !.pc = "focused",
                    !.call = [op |-> "desktop_focus_view", view |-> v, raise |-> raise],
                    !.before = Snapshot(desk)]
    /\ UNCHANGED <<main_vars, match_vars, cli_vars>>

\* a caller of desktop_update_top_layer_visibility: a view mapped, unmapped,
\* raised or made fullscreen, a workspace switch
UpdateTopLayerVisibility ==
    /\ desk.pc = "scene"
    /\ desk' = [desktop_update_top_layer_visibility(desk) EXCEPT
                    !.pc = "layered",
                    !.call = [op |-> "desktop_update_top_layer_visibility",
                              view |-> NULL, raise |-> FALSE],
                    !.before = Snapshot(desk)]
    /\ UNCHANGED <<main_vars, match_vars, cli_vars>>

InitScene ==
    /\ keybinds = <<>>
    /\ keyboard = CHOOSE k \in Keyboards : ~k.is_virtual /\ ~k.blacklisted
    /\ KeyboardInit
    /\ cli = NoCli
    /\ desk \in FocusStarts \cup LayerStarts

NextScene == FocusView \/ UpdateTopLayerVisibility

SpecScene == InitScene /\ [][NextScene]_vars

(***************************************************************************)
(* Properties of keybind matching.                                          *)
(***************************************************************************)
Range(seq) == { seq[i] : i \in DOMAIN seq }

\* the least index of a set of indices, NULL if there is none
First(S) == IF S = {} THEN NULL ELSE CHOOSE i \in S : \A j \in S : i <= j

Eligible(keybind, mods, device_name) ==
    /\ keybind.modifiers = mods
    /\ keybind.enabled
    /\ ~keybind.inhibited
    /\ ~keybind_device_is_blacklisted(keybind, device_name)
    /\ keybind_device_is_whitelisted(keybind, device_name)

EligibleBinds == { i \in DOMAIN keybinds :
                     Eligible(keybinds[i], m_in.keyinfo.modifiers, m_in.device_name) }

StageKeycode ==
    IF m_in.is_virtual THEN NULL
    ELSE First({ i \in EligibleBinds :
                   m_in.keyinfo.xkb_keycode \in Range(keybinds[i].keycodes) })

StageKeysyms(syms) ==
    LET hits(j) == { i \in EligibleBinds :
                       xkb_keysym_to_lower(syms[j]) \in Range(keybinds[i].keysyms) }
        j0 == First({ j \in DOMAIN syms : hits(j) # {} })
    IN  IF j0 = NULL THEN NULL ELSE First(hits(j0))

ThreeStages ==
    IF StageKeycode # NULL THEN StageKeycode
    ELSE IF StageKeysyms(m_in.keyinfo.translated) # NULL
    THEN StageKeysyms(m_in.keyinfo.translated)
    ELSE StageKeysyms(m_in.keyinfo.raw)

\* C1: match_keybinding returns the hit of the first of three stages that has
\* one: the first eligible keybind holding the keycode (skipped for a virtual
\* keyboard), then per translated keysym in order the first eligible keybind
\* holding its lower-cased keysym, then the same over the raw keysyms; NULL if no
\* stage has a hit.  Eligible: modifiers equal, enabled, not inhibited, device
\* not blacklisted and whitelisted.
C1_ThreeStageMatch == m_in.called => m_out = ThreeStages

\* C1 witness: a call in which the keycode stage has no hit, a translated keysym
\* and a raw keysym hit different keybinds, and the translated one is returned
C1_Witness ==
    /\ m_in.called
    /\ StageKeycode = NULL
    /\ StageKeysyms(m_in.keyinfo.translated) # NULL
    /\ StageKeysyms(m_in.keyinfo.raw) # NULL
    /\ StageKeysyms(m_in.keyinfo.raw) # StageKeysyms(m_in.keyinfo.translated)
    /\ m_out = StageKeysyms(m_in.keyinfo.translated)

\* does the list hold the name, compared ignoring case?
Names(list, device_name) ==
    \E e \in Range(list) : /\ e # NULL_STR
                           /\ Len(e) = Len(device_name)
                           /\ \A c \in DOMAIN e : tolower(e[c]) = tolower(device_name[c])

\* the device filter as stated: skipped iff blacklisted by name, or a non-empty
\* whitelist lacks the name; no name is never blacklisted and in no whitelist
SkippedForDevice(keybind, device_name) ==
    \/ device_name # NULL_STR /\ Names(keybind.device_blacklist, device_name)
    \/ /\ keybind.device_whitelist # <<>>
       /\ (device_name = NULL_STR \/ ~Names(keybind.device_whitelist, device_name))

\* C10: for every keybind and device name of a match, the keybind is skipped by
\* its device lists iff its blacklist holds the name ignoring case or its
\* non-empty whitelist does not; an empty whitelist allows every device, a
\* missing name is never blacklisted and fails every non-empty whitelist; and
\* the keybind returned is never a skipped one.
C10_DeviceFilter ==
    m_in.called =>
        /\ \A i \in DOMAIN keybinds :
             (\/ keybind_device_is_blacklisted(keybinds[i], m_in.device_name)
              \/ ~keybind_device_is_whitelisted(keybinds[i], m_in.device_name))
                <=> SkippedForDevice(keybinds[i], m_in.device_name)
        /\ m_out # NULL => ~SkippedForDevice(keybinds[m_out], m_in.device_name)

\* C10 witness: a match from a device without name that skips a whitelisted
\* keybind and returns a keybind that has a blacklist
C10_Witness ==
    /\ m_in.called
    /\ m_in.device_name = NULL_STR
    /\ m_out # NULL
    /\ keybinds[m_out].device_blacklist # <<>>
    /\ \E i \in DOMAIN keybinds : /\ i < m_out
                                  /\ keybinds[i].device_whitelist # <<>>
                                  /\ Eligible([keybinds[i] EXCEPT !.device_whitelist = <<>>],
                                              m_in.keyinfo.modifiers, m_in.device_name)

(***************************************************************************)
(* SpecControl: invocations of the binary with a control flag run side by   *)
(* side with the server's handling of SIGUSR1.  The invocations share the   *)
(* command files of XDG_RUNTIME_DIR; the server's handler is outside        *)
(* src/src/main.c and follows the description of the control channel.       *)
(***************************************************************************)
MaxInvocations == 2

\* the control flags the invocations are started with
ControlFlags ==
    { flag \in Flags :
        flag.option \in {"--enable-keybind", "--disable-keybind",
                         "--toggle-tiling", "--workspace-next"} }

NoFiles == [f \in CmdFiles |-> <<>>]

\* an invocation at the entry of main, with LABWC_PID naming the server
Invocation(flag) ==
    [pc |-> "start", flag |-> flag,
     env |-> [XDG_RUNTIME_DIR |-> <<"/", "r">>, LABWC_PID |-> <<"4", "2">>],
     writable |-> TRUE, files |-> NoFiles, files0 |-> NoFiles,
     file |-> "", open |-> FALSE, stream |-> <<>>,
     signals |-> <<>>, ops |-> <<>>, status |-> RUNNING]

\* the server reads one command file and dispatches its lines; a server that
\* consumes removes the file it has read
command_file_read(c, f) ==
    [c EXCEPT !.dispatched = @ \o [n \in 1..Len(c.files[f]) |->
                                        [file |-> f, line |-> c.files[f][n]]],
              !.files[f] = IF c.consumes THEN <<>> ELSE @]

\* On SIGUSR1 the server reads each command file once and dispatches
handle_sigusr1(c) ==
    command_file_read(
        command_file_read(
            command_file_read([c EXCEPT !.pending = FALSE], "labwc-keybind-cmd"),
            "labwc-workspace-cmd"),
        "labwc-tiling-cmd")

\* invocation k takes its next step of main on the files as they are now
invocation_step(c, k) ==
    LET q == main([c.procs[k] EXCEPT !.files = c.files])
    IN  [c EXCEPT !.procs[k] = [q EXCEPT !.files = NoFiles],
                  !.files = q.files,
                  !.pending = @ \/ Len(q.signals) > Len(c.procs[k].signals)]

\* the invocations and the server before any of them took a step; old is
\* what an earlier invocation, long handled, left in the command files of a
\* server that does not remove them
ControlStarts ==
    { [pc |-> "control", consumes |-> consumes,
       procs |-> procs,
       files |-> [f \in CmdFiles |-> IF consumes THEN <<>> ELSE old],
       pending |-> FALSE, dispatched |-> <<>>] :
       consumes \in BOOLEAN, old \in { <<>>, <<OldLine>> },
       procs \in [1..MaxInvocations -> { Invocation(flag) : flag \in ControlFlags }] }

\* an invocation that has not exited takes its next step
InvocationStep ==
    \E k \in 1..MaxInvocations :
        /\ cli.pc = "control"
        /\ cli.procs[k].pc # "exited"
        /\ cli' = invocation_step(cli, k)
        /\ UNCHANGED <<main_vars, match_vars, tile_vars>>

\* the event loop of the server dispatches the signal source
ServerSignal ==
    /\ cli.pc = "control"
    /\ cli.pending
    /\ cli' = handle_sigusr1(cli)
    /\ UNCHANGED <<main_vars, match_vars, tile_vars>>

InitControl ==
    /\ keybinds = <<>>
    /\ keyboard = CHOOSE k \in Keyboards : ~k.is_virtual /\ ~k.blacklisted
    /\ KeyboardInit
    /\ desk = NoDesk
    /\ cli \in ControlStarts

NextControl == InvocationStep \/ ServerSignal

SpecControl == InitControl /\ [][NextControl]_vars

(***************************************************************************)
(* Properties of key handling.  They read ev, the record of the last        *)
(* handler run; modifiers, locked, keybinds and keyboard are as the handler *)
(* saw them, because no handler changes them.                               *)
(***************************************************************************)
KeyPress == ev.kind = "key" /\ ev.state = "PRESSED"

KeyRelease == ev.kind = "key" /\ ev.state = "RELEASED"

\* the client was given exactly the event that was handled
Forwarded ==
    ev.fwd = << [keycode |-> ev.keycode, state |-> ev.state, time_msec |-> ev.time_msec] >>

Consumed == ev.fwd = <<>>

\* the pressed key got past the VT keys, the menu and the window switcher and
\* the keyboard may trigger keybinds
ReachedKeybinds ==
    /\ ev.handled # "TRUE_AND_VT_CHANGED"
    /\ input_mode = "PASSTHROUGH"
    /\ ~keyboard.blacklisted

\* the keybind the key of the event matches (NULL if none)
Matched ==
    match_keybinding(keybinds, get_keyinfo(modifiers, ev.keycode),
                     keyboard.is_virtual, keyboard.name)

\* would the key of the event match keybind i if i were enabled?
WouldMatch(i) ==
    match_keybinding([keybinds EXCEPT ![i].enabled = TRUE],
                     get_keyinfo(modifiers, ev.keycode),
                     keyboard.is_virtual, keyboard.name) = i

Plain(i) == keybinds[i].condition_command = NULL_STR /\ ~keybinds[i].on_release

ConditionGated(i) == keybinds[i].condition_command # NULL_STR /\ ~keybinds[i].on_release

MayRun(i) == ~locked \/ keybinds[i].allow_when_locked

\* the key released is not taken by a pending onRelease keybind
NoReleaseBindPending == ev.pre_cur = NULL \/ ~keybinds[ev.pre_cur].on_release

\* C2: for a keybind without condition and not onRelease: while it is disabled a
\* press that would match it runs no action, is forwarded and leaves the key
\* unbound, and the release of the unbound key is forwarded; while it is enabled
\* (and may run under the lock state) a matching press runs its actions once,
\* is not forwarded and binds the key, and the release of the bound key is
\* consumed and unbinds it.
C2_DisabledForwardsEnabledRuns ==
    /\ \A i \in DOMAIN keybinds :
         (KeyPress /\ Plain(i) /\ ReachedKeybinds /\ WouldMatch(i)) =>
            IF ~keybinds[i].enabled
            THEN ev.ran = <<>> /\ Forwarded /\ ev.keycode \notin bound
            ELSE (MayRun(i) => ev.ran = <<i>> /\ Consumed /\ ev.keycode \in bound)
    /\ (KeyRelease /\ NoReleaseBindPending) =>
            IF ev.was_bound THEN Consumed /\ ev.keycode \notin bound
            ELSE Forwarded

\* C2 witness: the keybind was disabled over the control channel, its key was
\* pressed and the release has just been forwarded
C2_Witness ==
    /\ KeyRelease
    /\ Forwarded
    /\ \E i \in DOMAIN keybinds : Plain(i) /\ ~keybinds[i].enabled /\ WouldMatch(i)

\* C3: while the session is locked no handler runs the actions of a keybind
\* that is not allowWhenLocked
C3_LockedRunsOnlyAllowed ==
    locked => \A j \in DOMAIN ev.ran : keybinds[ev.ran[j]].allow_when_locked

\* the output a condition context had collected is one the keybind accepts:
\* without trailing whitespace it is one of the values, or any non-empty output
\* if there are no values
Accepts(keybind, output) ==
    LET n == First({ k \in 0..Len(output) :
                       /\ \A j \in (k + 1)..Len(output) : is_trailing_space(output[j])
                       /\ k > 0 => ~is_trailing_space(output[k]) })
        trimmed == SubSeq(output, 1, n)
    IN  IF keybind.condition_values = <<>> THEN n > 0
        ELSE trimmed \in Range(keybind.condition_values)

\* the condition context of the event is gone: freed, no event source left
ContextGone ==
    /\ ev.slot \notin DOMAIN ctxs
    /\ \A src \in loop : src[2] # ev.slot

C5_MissDeliversPressThenRelease ==
    (ev.kind = "EOF" /\ ConditionGated(ev.keybind)
       /\ ~Accepts(keybinds[ev.keybind], ev.buf)) =>
        /\ ev.ran = <<>>
        /\ ev.keycode \notin bound
        /\ ev.fwd = << [keycode |-> ev.keycode, state |-> "PRESSED",
                        time_msec |-> ev.time_msec] >>
        /\ ev.time_msec \in Times
        /\ ev.keycode \in held

\* C6: when the timeout of a condition context fires no action runs, nothing is
\* forwarded, the key is bound iff it was, and the context is gone with both
\* its event sources, so no later EOF is seen for it; no event source outlives
\* its context; and the release of a key that is bound is consumed.
C6_TimeoutDropsKeybind ==
    /\ ev.kind = "timeout" =>
         /\ ev.ran = <<>>
         /\ ev.fwd = <<>>
         /\ (ev.keycode \in bound) = ev.was_bound
         /\ ContextGone
    /\ \A src \in loop : src[2] \in DOMAIN ctxs
    /\ (KeyRelease /\ ev.was_bound) => Consumed /\ ev.keycode \notin bound

\* C6 witness: the timeout fired while the key was down and bound
C6_Witness ==
    /\ ev.kind = "timeout"
    /\ ev.keycode \in held
    /\ ev.keycode \in bound

\* C7: a press that started a condition command arms no key-repeat timer, and
\* the key-repeat timer never starts a condition command
C7_NoRepeatForConditionGated ==
    /\ (KeyPress /\ ev.spawn # <<>>) => keybind_repeat = NULL
    /\ ev.kind = "repeat" => ev.spawn = <<>>

\* C8: when the condition command of the keybind a press matches cannot be
\* spawned, or its pipe or timer cannot be registered, no action runs and the
\* press is forwarded
C8_SpawnFailureForwards ==
    (KeyPress /\ ev.spawn # <<>> /\ ev.spawn[Len(ev.spawn)] # "ok") =>
        ev.ran = <<>> /\ Forwarded

\* C9: every release of a key whose press was bound is consumed and unbinds the
\* key, every release of a key whose press was not bound is forwarded
C9_ReleaseFollowsPress ==
    KeyRelease => IF ev.was_bound THEN Consumed /\ ev.keycode \notin bound
                  ELSE Forwarded

(***************************************************************************)
(* VT switch, window switcher, reconfigure.                                 *)
(***************************************************************************)
\* a press handed to handle_compositor_keybindings, by the device or by the
\* key-repeat timer
PressEvent == ev.kind \in {"key", "repeat"} /\ ev.state = "PRESSED"

\* the translated keysyms of the event's key include XF86Switch_VT_1..12
VTKey ==
    \E i \in 1..Len(translated_syms(ev.keycode + 8, modifiers)) :
        vt_of(translated_syms(ev.keycode + 8, modifiers)[i]) \in 1..12

\* C11: a press whose translated keysyms include a VT-switch keysym switches
\* the VT once, in every input mode, locked or not, on every device; it leaves
\* no repeat timer armed and the keycode bound; no keybind is matched, no action
\* runs, no command is spawned, menu and window switcher stay as they are and
\* the client is given nothing.
C11_VTSwitchPreempts ==
    (PressEvent /\ VTKey) =>
        /\ ev.vt = <<1>>
        /\ ev.handled = "TRUE_AND_VT_CHANGED"
        /\ keybind_repeat = NULL
        /\ ev.keycode \in bound
        /\ cur_keybind = ev.pre_cur
        /\ ev.ran = <<>> /\ ev.spawn = <<>>
        /\ input_mode = ev.pre_mode /\ ev.cycle_finish = <<>>
        /\ ev.fwd = <<>>

\* C11 witness: the VT key was pressed on the blacklisted keyboard while the
\* session was locked and a menu open, after a keybind had been matched
C11_Witness ==
    /\ KeyPress /\ VTKey
    /\ locked /\ keyboard.blacklisted
    /\ ev.pre_mode = "MENU"
    /\ ev.vt = <<1>>

\* C12: in CYCLE mode a modifiers event that leaves no modifier pressed sets the
\* cancel flag and does not finish cycling if a bound key is held, and finishes
\* cycling at once with the flag false if none is; with the flag set, the next
\* release of a key whose press was bound finishes cycling and clears the flag.
C12_CycleEndsWithModifiers ==
    /\ (ev.kind = "modifiers" /\ ev.pre_mode = "CYCLE" /\ modifiers = 0) =>
            IF bound # {}
            THEN cancel_cycling /\ ev.cycle_finish = <<>> /\ input_mode = "CYCLE"
            ELSE ev.cycle_finish = <<"CYCLE">> /\ ~cancel_cycling
    /\ (KeyRelease /\ ev.was_bound /\ ev.pre_cancel /\ ev.pre_mode = "CYCLE") =>
            ev.cycle_finish = <<"CYCLE">> /\ ~cancel_cycling

\* C13: a reconfigure leaves no key-repeat timer armed and no event source of a
\* condition context registered, and no callback runs for a condition context
\* whose keybind a reconfigure destroyed
C13_ReconfigureDropsContexts ==
    /\ ev.kind = "reconfigure" => keybind_repeat = NULL /\ loop = {}
    /\ ev.kind \in {"EAGAIN", "ERROR", "EOF", "DATA", "timeout"} => ~ev.freed

(***************************************************************************)
(* Properties of the control-flag invocations.                              *)
(***************************************************************************)
\* the one line the invocation is to write
CliLine ==
    IF cli.flag.family = "keybind" THEN <<cli.flag.command, cli.flag.arg>>
    ELSE IF cli.flag.arg = NULL_STR THEN <<cli.flag.command>>
    ELSE <<cli.flag.command, cli.flag.arg>>

\* the command file of the invocation's family holds exactly its line and is
\* closed, and no other command file was touched
CliFileComplete ==
    /\ ~cli.open
    /\ cli.files[CmdFile(cli.flag.family)] = <<CliLine>>
    /\ \A f \in CmdFiles \ {CmdFile(cli.flag.family)} : cli.files[f] = cli.files0[f]

CliSignalled ==
    cli.signals = << [pid |-> atoi(cli.env.LABWC_PID), signal |-> "SIGUSR1"] >>

C15_ExitStatus ==
    cli.pc = "exited" =>
        IF cli.status = 0 THEN CliFileComplete /\ CliSignalled
        ELSE cli.files = cli.files0 /\ cli.signals = <<>>

(***************************************************************************)
(* Properties of the tiling engine.                                         *)
(***************************************************************************)
\* desktop_arrange_tiled has just run
Arranged == desk.pc = "arranged"

\* two rectangles share a point of positive area
Overlap(a, b) ==
    /\ a.width > 0 /\ a.height > 0 /\ b.width > 0 /\ b.height > 0
    /\ a.x < b.x + b.width /\ b.x < a.x + a.width
    /\ a.y < b.y + b.height /\ b.y < a.y + a.height

Inside(a, u) ==
    /\ a.x >= u.x /\ a.y >= u.y
    /\ a.x + a.width <= u.x + u.width
    /\ a.y + a.height <= u.y + u.height

\* the geometry last committed to a view: what it was last asked to take
Committed(i) == desk.views[i].pending

\* the iteration index of a tiled view of an output
IterationIndex(o, i) == Cardinality({ j \in tiled_on(desk, o) : j < i })

\* the outputs the run laid out
TiledOutputs ==
    { o \in DOMAIN desk.outputs : desk.outputs[o].usable /\ tiled_on(desk, o) # {} }

\* C16: after a run with tiling enabled, on every usable output with a
\* tileable view the rectangles committed to its tileable views are pairwise
\* non-overlapping and inside the usable area
C16_NonOverlapInside ==
    (Arranged /\ desk.tiling_mode) =>
        \A o \in TiledOutputs :
            \A i \in tiled_on(desk, o) :
                /\ Inside(Committed(i), desk.outputs[o].area)
                /\ \A j \in tiled_on(desk, o) :
                        i # j => ~Overlap(Committed(i), Committed(j))

\* the cell the grid formula gives the view of iteration index idx among n
\* views in a cols x rows grid of area a
FormulaCell(a, g, n, cols, rows, idx) ==
    LET col == idx % cols
        row == idx \div cols
        cellW == (a.width - (cols + 1) * g) \div cols
        cellH == (a.height - (rows + 1) * g) \div rows
        k == n - (rows - 1) * cols
    IN  Box(a.x + (col + 1) * g + col * cellW,
            a.y + (row + 1) * g + row * cellH,
            IF row = rows - 1 /\ k < cols THEN (a.width - (k + 1) * g) \div k
            ELSE cellW,
            cellH)

\* no view is the resized one and the tiled views of output o have no decoration
PlainOutput(o) ==
    /\ desk.resized_view = NULL
    /\ \A i \in tiled_on(desk, o) : desk.views[i].margin = NoMargin

\* C17: with tiling enabled, no resized view and no decoration, the view of
\* iteration index i is committed to the cell of column i mod cols and row
\* i div cols that the grid formula gives, a view of an incomplete last row of
\* k views with the width (W-(k+1)g)/k
C17_GridCell ==
    (Arranged /\ desk.tiling_mode) =>
        \A o \in TiledOutputs :
            PlainOutput(o) =>
                \A i \in tiled_on(desk, o) :
                    Committed(i) =
                        FormulaCell(desk.outputs[o].area, desk.gap,
                                    Cardinality(tiled_on(desk, o)),
                                    desk.layouts[o].cols, desk.layouts[o].rows,
                                    IterationIndex(o, i))

\* the start of the anchor scenario: three tiled views without decoration on
\* the 1000x600 output, gap 10, smart mode, the second resized to the right
\* half, the first and the third left of it
AnchorScenario ==
    /\ desk.runs = 1 /\ desk.tiling_mode /\ ~desk.tiling_grid_mode
    /\ desk.outputs = <<Output(TRUE, Wide)>> /\ desk.gap = 10
    /\ Len(desk.views) = 3 /\ tiled_on(desk, 1) = {1, 2, 3}
    /\ \A i \in {1, 2, 3} : desk.views[i].margin = NoMargin
    /\ desk.resized_view = 2
    /\ desk.before.resized_view_geometry = Box(505, 10, 485, 580)
    /\ desk.before.views[2].current = Box(505, 10, 485, 580)
    /\ \A i \in {1, 3} :
            desk.before.views[i].current.x + desk.before.views[i].current.width <= 505

\* C18: in the anchor scenario the run leaves B at (505,10,485,580) and
\* commits A to (10,10,485,285) and C to (10,305,485,285)
C18_AnchorScenario ==
    (Arranged /\ AnchorScenario) =>
        /\ Committed(2) = Box(505, 10, 485, 580)
        /\ Committed(1) = Box(10, 10, 485, 285)
        /\ Committed(3) = Box(10, 305, 485, 285)

\* C19: a run with tiling disabled, and a run with no tileable view on the
\* current workspace, changes no geometry, maximize state or tiled flag of a
\* view and not the stored geometry of the resized view
C19_NoMutation ==
    (Arranged /\ (~desk.tiling_mode \/ tiled_count(desk) = 0)) =>
        /\ desk.views = desk.before.views
        /\ desk.resized_view_geometry = desk.before.resized_view_geometry
        /\ desk.moves = <<>>

\* C19 witness: a run with tiling disabled on a server with two floating
\* views a run would tile and a resized view
C19_Witness ==
    /\ Arranged /\ ~desk.tiling_mode /\ tiled_count(desk) = 2
    /\ desk.resized_view # NULL

\* the shape a run used on output o is cols x rows, with or without the
\* vertical split
ShapeIs(o, cols, rows) == desk.layouts[o].cols = cols /\ desk.layouts[o].rows = rows

\* the table of shapes, vertical telling whether the vertical variant of the
\* rows for 3 and 5 views applies
ShapeTable(o, n, vertical3, vertical5) ==
    /\ n = 1 => ShapeIs(o, 1, 1)
    /\ n = 2 => ShapeIs(o, 2, 1)
    /\ n = 3 => ShapeIs(o, 2, 2) /\ desk.layouts[o].use_vertical_split = vertical3
    /\ n = 4 => ShapeIs(o, 2, 2)
    /\ n = 5 => IF vertical5 THEN ShapeIs(o, 2, 3) ELSE ShapeIs(o, 3, 2)
    /\ n = 6 => ShapeIs(o, 3, 2)
    /\ n >= 7 => ShapeIs(o, 3, (n + 2) \div 3)
    /\ desk.layouts[o].cols * desk.layouts[o].rows >= n
    /\ (desk.layouts[o].rows - 1) * desk.layouts[o].cols < n

\* the outputs a run laid out with no resized view to preserve
GridOutputs == { o \in TiledOutputs : ~anchor_honoured(desk, o) }

\* C20 as stated: vertical whenever a view prefers it, else by the aspect of
\* the area when no view has a preference
C20_ShapeAsStated ==
    (Arranged /\ desk.tiling_mode) =>
        \A o \in GridOutputs :
            LET a == desk.outputs[o].area
                pv == prefer_vertical(desk, o)
                none == ~pv /\ ~prefer_horizontal(desk, o)
            IN  ShapeTable(o, Cardinality(tiled_on(desk, o)),
                           pv \/ (none /\ 2 * a.width <= 3 * a.height),
                           pv \/ (none /\ 10 * a.width <= 13 * a.height))

\* C20: the shape a run uses for the n tileable views of an output of size
\* WxH with no resized view to preserve is 1x1, 2x1, 2x2, 2x2, 3x2 for n = 1,
\* 2, 3, 4, 6 and 3 x ceil(n/3) from 7 on; for n = 3 with the vertical split,
\* and for n = 5 as 2x3 instead of 3x2, when views prefer vertical and none
\* horizontal, or when none or both directions are preferred and 2W <= 3H
\* (n = 3), 10W <= 13H (n = 5); cols*rows >= n and (rows-1)*cols < n
C20_Shape ==
    (Arranged /\ desk.tiling_mode) =>
        \A o \in GridOutputs :
            LET a == desk.outputs[o].area
                pv == prefer_vertical(desk, o)
                ph == prefer_horizontal(desk, o)
            IN  ShapeTable(o, Cardinality(tiled_on(desk, o)),
                           (pv /\ ~ph) \/ (pv = ph /\ 2 * a.width <= 3 * a.height),
                           (pv /\ ~ph) \/ (pv = ph /\ 10 * a.width <= 13 * a.height))

\* C20 witness: five views on the tall output with no preference, laid out in
\* 2 columns and 3 rows
C20_Witness ==
    /\ Arranged /\ desk.tiling_mode /\ GridOutputs = {1}
    /\ Cardinality(tiled_on(desk, 1)) = 5
    /\ desk.outputs[1].area = Tall
    /\ ~prefer_vertical(desk, 1) /\ ~prefer_horizontal(desk, 1)
    /\ ShapeIs(1, 2, 3)

\* C21: a run commits no rectangle with a negative width or height; a view
\* whose computed geometry has a negative dimension is skipped
C21_NoNegativeCommit ==
    (Arranged /\ desk.tiling_mode) =>
        \A k \in DOMAIN desk.moves :
            desk.moves[k][2].width >= 0 /\ desk.moves[k][2].height >= 0

\* the server the last run started from
BeforeRun ==
    [desk EXCEPT !.views = desk.before.views,
                 !.resized_view_geometry = desk.before.resized_view_geometry,
                 !.moves = <<>>, !.iterations = 0, !.passes = <<>>,
                 !.layouts = [o \in DOMAIN desk.outputs |-> NoLayout]]

\* what the run would have committed had no view been recorded as resized
WithoutResized == desktop_arrange_tiled([BeforeRun EXCEPT !.resized_view = NULL])

\* C22: in grid mode a run commits the same geometries whether or not a
\* resized view is recorded, one commit per tiled view and none by the fill
\* passes, and leaves the stored geometry of the resized view as it was
C22_GridModeIgnoresResized ==
    (Arranged /\ desk.tiling_mode /\ desk.tiling_grid_mode) =>
        /\ desk.moves = WithoutResized.moves
        /\ \A i \in DOMAIN desk.views : Committed(i) = WithoutResized.views[i].pending
        /\ \A o \in TiledOutputs :
                ~desk.layouts[o].resized
                /\ \A i \in tiled_on(desk, o) :
                        /\ Committed(i) =
                                tile_geo(desk.layouts[o], IterationIndex(o, i),
                                         desk.views[i].margin, desk.gap)
                        /\ Cardinality({ k \in DOMAIN desk.moves :
                                            desk.moves[k][1] = i }) = 1
        /\ desk.iterations = 0
        /\ desk.resized_view_geometry = desk.before.resized_view_geometry

\* C22 witness: a grid-mode run with three views, one of them recorded as
\* resized, has moved that view away from its stored geometry
C22_Witness ==
    /\ Arranged /\ desk.tiling_mode /\ desk.tiling_grid_mode
    /\ desk.resized_view # NULL
    /\ Cardinality(tiled_on(desk, 1)) = 3
    /\ desk.resized_view \in tiled_on(desk, 1)
    /\ Committed(desk.resized_view) # desk.resized_view_geometry

\* the outputs a run laid out around a resized view with adjacent views
AdjacentOutputs ==
    { o \in TiledOutputs : desk.layouts[o].resized /\ desk.layouts[o].adjacent # {} }

\* the tiled views of output o that are neither the resized view nor adjacent
Others(o) == (tiled_on(desk, o) \ desk.layouts[o].adjacent) \ {desk.resized_view}

\* the run left the geometry of view i as it was
Unmoved(i) ==
    /\ desk.views[i].pending = desk.before.views[i].pending
    /\ desk.views[i].current = desk.before.views[i].current

\* C23: when a resized view is preserved and has adjacent views, every other
\* tiled view of the output has the geometry after the run, fill passes
\* included, that it had before
C23_OthersKeepGeometry ==
    (Arranged /\ desk.tiling_mode) =>
        \A o \in AdjacentOutputs : \A i \in Others(o) : Unmoved(i)

\* the outputs whose usable area the resized view, preserved by the run,
\* filled exactly when the run started
FilledOutputs ==
    { o \in DOMAIN desk.outputs :
        /\ desk.outputs[o].usable /\ anchor_honoured(desk, o)
        /\ full_box(desk.before.resized_view_geometry,
                    desk.views[desk.resized_view].margin) = desk.outputs[o].area }

\* C24: when the resized view exactly fills the usable area of its output, no
\* view is adjacent to it and the run changes the geometry of no other view
C24_FullAnchor ==
    (Arranged /\ desk.tiling_mode) =>
        \A o \in FilledOutputs :
            /\ desk.layouts[o].adjacent = {}
            /\ \A i \in DOMAIN desk.views : i # desk.resized_view => Unmoved(i)


\* the outputs where the resized view was kept and no other view is adjacent
NoAdjacentOutputs ==
    { o \in TiledOutputs : desk.layouts[o].resized /\ desk.layouts[o].adjacent = {} }

\* the largest free strip beside the resized view as it was before the run
LargestStrip(o) ==
    remaining_space(BeforeRun, {},
                    resized_full_clamped(BeforeRun, desk.outputs[o].area),
                    desk.outputs[o].area)

\* C25: when the resized view is kept and no view is adjacent to it, the other
\* tileable views of the output are laid out in the largest free strip beside
\* it: the layout area is that strip and every rectangle the run commits to them
\* is inside it
C25_LargestStrip ==
    (Arranged /\ desk.tiling_mode) =>
        \A o \in NoAdjacentOutputs :
            /\ desk.layouts[o].layout_area = LargestStrip(o)
            /\ \A k \in DOMAIN desk.moves :
                    (/\ desk.moves[k][1] \in tiled_on(desk, o)
                     /\ desk.moves[k][1] # desk.resized_view) =>
                        Inside(full_box(desk.moves[k][2],
                                        desk.views[desk.moves[k][1]].margin),
                               LargestStrip(o))


\* the rectangle the tile loop of the run committed to view i, decoration
\* included: the first one the run committed to it
TileCommit(i) ==
    full_box(desk.moves[First({ k \in DOMAIN desk.moves : desk.moves[k][1] = i })][2],
             desk.views[i].margin)

\* the outputs laid out by the grid branch: no resized view kept, no
\* vertical split
GridBranchOutputs ==
    { o \in GridOutputs :
        ~(desk.layouts[o].use_vertical_split /\ desk.layouts[o].output_count = 3) }

\* C29: in a layout of the grid branch the last view of every row, the last
\* row included, ends at areaX + areaW - g and every view of the last row ends
\* at areaY + areaH - g
C29_EdgesReached ==
    (Arranged /\ desk.tiling_mode) =>
        \A o \in GridBranchOutputs : \A i \in tiled_on(desk, o) :
            LET a == desk.outputs[o].area
                n == Cardinality(tiled_on(desk, o))
                cols == desk.layouts[o].cols
                idx == IterationIndex(o, i)
            IN  /\ (idx % cols = cols - 1 \/ idx = n - 1) =>
                        TileCommit(i).x + TileCommit(i).width
                            = a.x + a.width - desk.gap
                /\ idx \div cols = (n - 1) \div cols =>
                        TileCommit(i).y + TileCommit(i).height
                            = a.y + a.height - desk.gap

\* the commits of the run that are not the first one to their view, nor to
\* the resized view: the commits of the fill passes
FillCommits ==
    { k \in DOMAIN desk.moves :
        /\ desk.moves[k][1] # desk.resized_view
        /\ \E j \in DOMAIN desk.moves : j < k /\ desk.moves[j][1] = desk.moves[k][1] }

\* C30: a run ends; its fill phase makes at most max_iterations passes, a pass
\* that finds no empty side wider than the gap or expands no window is the
\* last one, and in grid mode there is no pass and no commit of one
C30_FillBounded ==
    (Arranged /\ desk.tiling_mode) =>
        /\ desk.iterations <= max_iterations
        /\ Len(desk.passes) = desk.iterations
        /\ \A k \in DOMAIN desk.passes :
                (~desk.passes[k].empty \/ desk.passes[k].expanded = 0) =>
                    k = Len(desk.passes)
        /\ desk.tiling_grid_mode => (desk.iterations = 0 /\ FillCommits = {})

\* the bound ends a run whose every pass expanded a window
C30_Witness ==
    /\ Arranged /\ desk.tiling_mode /\ ~desk.tiling_grid_mode
    /\ desk.iterations = max_iterations
    /\ \A k \in DOMAIN desk.passes :
            desk.passes[k].empty /\ desk.passes[k].expanded > 0

(***************************************************************************)
(* Properties of focus and of the top layer.                               *)
(***************************************************************************)
Layered == desk.pc = "layered"

Focused == desk.pc = "focused"

\* the positions in the stacking order of the views of the current workspace
\* that are not minimized and intersect output o
PositionsOn(o) ==
    { k \in DOMAIN desk.order :
        /\ on_current_workspace(desk, desk.order[k])
        /\ ~desk.views[desk.order[k]].minimized
        /\ o \in desk.views[desk.order[k]].outputs }

\* the topmost of them, NULL if there is none
TopmostOn(o) ==
    IF PositionsOn(o) = {} THEN NULL ELSE desk.order[First(PositionsOn(o))]

\* C26: after desktop_update_top_layer_visibility the top layer of a usable
\* output is disabled iff the topmost view of the current workspace that is
\* not minimized and intersects the output is fullscreen, and is enabled
\* otherwise, also when there is no such view
C26_TopLayer ==
    Layered =>
        \A o \in DOMAIN desk.outputs :
            desk.outputs[o].usable =>
                (~desk.outputs[o].top_enabled <=>
                    (TopmostOn(o) # NULL /\ desk.views[TopmostOn(o)].fullscreen))


\* the view desktop_focus_view was called with, as it was before the call
Target == desk.before.views[desk.call.view]

\* C27 as stated: desktop_focus_view changes nothing (keyboard focus, current
\* workspace, stacking order, the minimized flag) when the view has no
\* surface, when the input mode is CYCLE, or when the view is not mapped
C27_RejectedAsStated ==
    (Focused /\ (~Target.surface \/ desk.input_mode = "CYCLE" \/ ~Target.mapped)) =>
        Snapshot(desk) = desk.before

\* C27: desktop_focus_view changes nothing (keyboard focus, offers of focus,
\* current workspace, stacking order, the flags of the views) when the view
\* has no surface, when the input mode is CYCLE, or when the view is neither
\* minimized nor mapped
C27_Rejected ==
    (Focused /\ (\/ ~Target.surface
                 \/ desk.input_mode = "CYCLE"
                 \/ (~Target.minimized /\ ~Target.mapped))) =>
        Snapshot(desk) = desk.before

\* an unmapped view that an accepted call would have raised, focused and
\* switched the workspace to is left alone
C27_Witness ==
    /\ Focused /\ desk.call.raise /\ desk.input_mode = "PASSTHROUGH"
    /\ Target.surface /\ ~Target.mapped /\ ~Target.minimized
    /\ Target.wants_focus = "ALWAYS" /\ Target.workspace # desk.before.workspace
    /\ ~Target.always_on_top /\ ~Target.always_on_bottom
    /\ desk.before.order[1] # desk.call.view
    /\ desk.before.focused_surface # desk.call.view
    /\ Snapshot(desk) = desk.before


\* the call was not rejected and the view was not minimized
Accepted ==
    /\ Focused /\ desk.input_mode # "CYCLE"
    /\ Target.surface /\ Target.mapped /\ ~Target.minimized

\* the view the focus goes to: the modal dialog of the view, else the view
FocusTarget == IF Target.dialog # NULL THEN Target.dialog ELSE desk.call.view

\* the position of a view in the stacking order, 1 the front
Position(order, v) == CHOOSE k \in DOMAIN order : order[k] = v

\* C28: a call that is not rejected, on a view that is not minimized, makes
\* the workspace of the view the current one unless the view is always on
\* top or bottom; brings the view to the front, above every view but its
\* dialog, iff raise is set, and else leaves the stacking order alone; and
\* gives the keyboard focus to the target if its policy is ALWAYS, offers it
\* the focus and no more if LIKELY or UNLIKELY, does neither if NEVER
C28_Focus ==
    Accepted =>
        /\ desk.views = desk.before.views
        /\ desk.workspace = IF Target.always_on_top \/ Target.always_on_bottom
                            THEN desk.before.workspace ELSE Target.workspace
        /\ IF desk.call.raise
           THEN /\ \A w \in DOMAIN desk.views \ {desk.call.view, Target.dialog} :
                        Position(desk.order, desk.call.view) < Position(desk.order, w)
                /\ \A w \in DOMAIN desk.views : \E k \in DOMAIN desk.order :
                        desk.order[k] = w
                /\ Len(desk.order) = Len(desk.before.order)
           ELSE desk.order = desk.before.order
        /\ desk.focused_surface =
                IF desk.views[FocusTarget].wants_focus = "ALWAYS" THEN FocusTarget
                ELSE desk.before.focused_surface
        /\ desk.offered =
                IF desk.views[FocusTarget].wants_focus \in {"LIKELY", "UNLIKELY"}
                THEN Append(desk.before.offered, FocusTarget)
                ELSE desk.before.offered

\* a view at the back of the other workspace is raised and its dialog, which
\* did not have the focus, gets it although the view itself would only be
\* offered it
C28_Witness ==
    /\ Accepted /\ desk.call.raise /\ Target.dialog # NULL
    /\ Target.workspace # desk.before.workspace /\ desk.workspace = Target.workspace
    /\ Target.wants_focus = "LIKELY"
    /\ desk.views[FocusTarget].wants_focus = "ALWAYS"
    /\ desk.before.focused_surface # FocusTarget
    /\ desk.focused_surface = FocusTarget
    /\ Position(desk.before.order, desk.call.view) = 3
    /\ Position(desk.order, desk.call.view) = 2
    /\ desk.offered = <<>>


(***************************************************************************)
(* Properties of key repeat, condition contexts and onRelease keybinds.    *)
(***************************************************************************)
\* the keyboard can repeat
Repeats == keyboard.repeat_rate > 0 /\ keyboard.repeat_delay > 0

\* C31: start_keybind_repeat never finds a timer armed, so no second timer is
\* ever added; after a key event the only timer armed is one armed for that
\* event, for a press that was consumed, of a key that is no modifier, on a
\* keyboard with repeat rate and delay above 0; no other event arms a timer
C31_OneRepeatTimer ==
    /\ ev.kind = "key" => ~ev.assert_failed
    /\ (ev.kind = "key" /\ keybind_repeat # NULL) =>
            /\ keybind_repeat = ev.keycode
            /\ ev.state = "PRESSED" /\ ev.handled = "TRUE"
            /\ ~is_modifier(modifiers, ev.keycode)
            /\ Repeats
    /\ (ev.kind # "key" /\ keybind_repeat # NULL) => keybind_repeat = ev.pre_repeat

\* the release of a key cancelled the timer armed for another key
C31_Witness ==
    /\ ev.kind = "key" /\ ev.state = "RELEASED"
    /\ ev.pre_repeat # NULL /\ ev.pre_repeat # ev.keycode
    /\ ev.pre_repeat \in held
    /\ keybind_repeat = NULL

\* the handler of the event was a callback of a condition context
ContextEvent == ev.kind \in {"EAGAIN", "ERROR", "EOF", "DATA", "timeout"}

\* the callback of the event resolves its context
Resolves == ev.kind \in {"ERROR", "EOF", "timeout"}

\* C32: the handler that sees EOF, a read error or the timeout closes the pipe
\* of its context once and leaves the context gone with both event sources;
\* a read of data or EAGAIN closes nothing and leaves the context waiting;
\* every context that is allocated has both its sources in the event loop and
\* every source in the loop has its context, so that after the resolution no
\* callback of the context is left to run, whatever ran in between
C32_ContextResolvedOnce ==
    /\ (ContextEvent /\ Resolves) => ev.closed = <<ev.slot>> /\ ContextGone
    /\ (ContextEvent /\ ~Resolves) =>
            /\ ev.closed = <<>>
            /\ ev.slot \in DOMAIN ctxs
    /\ \A slot \in DOMAIN ctxs :
            /\ ~ctxs[slot].cleaned_up
            /\ <<"fd", slot>> \in loop
            /\ <<"timer", slot>> \in loop
    /\ \A src \in loop : src[2] \in DOMAIN ctxs

\* C32 witness: a context was resolved after it had collected output, while
\* the context of another key is still waiting
C32_Witness ==
    /\ ContextEvent /\ Resolves
    /\ ev.buf # <<>>
    /\ ContextGone
    /\ \E slot \in DOMAIN ctxs : ctxs[slot].keycode # ev.keycode

\* the key of the event is a key of keybind i
KeyOf(i) == keybind_contains_keycode(keybinds[i], ev.keycode + 8)

\* C33: the actions of an onRelease keybind run only in the handler of the
\* release of the keybind's key after a press of it that was bound (or, with a
\* condition command, at the end of the command that release started), once;
\* the release of another key whose press was not bound runs no action and is
\* forwarded
C33_OnReleaseRunsOnItsRelease ==
    \A i \in 1..Len(keybinds) :
        keybinds[i].on_release =>
            /\ (\E n \in 1..Len(ev.ran) : ev.ran[n] = i) =>
                    /\ ev.ran = <<i>>
                    /\ \/ KeyRelease /\ KeyOf(i) /\ ev.was_bound
                       \/ ev.kind = "EOF" /\ ev.keybind = i
            /\ (KeyRelease /\ ~KeyOf(i) /\ ~ev.was_bound) => ev.ran = <<>> /\ Forwarded

\* the handler of the event gave the client a press
PressDelivered == \E n \in 1..Len(ev.fwd) : ev.fwd[n].state = "PRESSED"

\* C34: when the handler of a condition command's EOF gives the client the
\* press, the key is down, so that its release is still to come; this for the
\* command of a press and for the command of an onRelease keybind's release
C34_ReinjectedPressIsHeld ==
    (ev.kind = "EOF" /\ PressDelivered) => ev.keycode \in held

\* C35: no assertion of the repeat path fails: handle_keybind_repeat runs with
\* its timer and a repeat rate above 0, the timer is still there when the
\* handler re-arms it after the keybind handling, and start_keybind_repeat
\* runs with no timer armed
C35_RepeatAssertionsHold ==
    /\ ~ev.assert_failed
    /\ ev.kind = "repeat" => ~ev.null_timer_update /\ keybind_repeat = ev.pre_repeat

\* C36: the keyboard code calls cycle_finish only while the input mode is
\* CYCLE, and should_cancel_cycling_on_next_key_release is set only while the
\* input mode is CYCLE
C36_CancelFlagOnlyWhileCycling ==
    /\ \A n \in 1..Len(ev.cycle_finish) : ev.cycle_finish[n] = "CYCLE"
    /\ cancel_cycling => input_mode = "CYCLE"

\* C37: the keybind whose actions a handler runs is enabled when they run,
\* whether the handler is that of a press, of a release, of the key-repeat
\* timer or of the end of a condition command
C37_DisabledNeverRuns ==
    \A n \in 1..Len(ev.ran) : keybinds[ev.ran[n]].enabled

(***************************************************************************)
(* Properties of the tiling run as a whole.                                 *)
(***************************************************************************)
\* view i is one the loops of desktop_arrange_tiled skip
NotTileable(i) == ~(on_current_workspace(desk, i) /\ tile_candidate(desk.views[i]))

\* the views the tile loop of output o gave a cell of the layout
Placed(o) ==
    { i \in tiled_on(desk, o) :
        /\ ~(desk.layouts[o].resized /\ i = desk.resized_view)
        /\ ~(desk.layouts[o].resized /\ desk.layouts[o].adjacent # {}
                /\ i \notin desk.layouts[o].adjacent) }

\* C38: a run calls view_move_resize for no view that is not tileable and
\* leaves its geometry as it was, and on every output it laid out the count
\* the layout was computed for is the number of tileable views other than the
\* preserved one that the tile loop placed; also when the recorded resized
\* view is not tileable
C38_OnlyTileableViewsArranged ==
    Arranged =>
        /\ \A i \in DOMAIN desk.views :
              NotTileable(i) =>
                  /\ \A n \in 1..Len(desk.moves) : desk.moves[n][1] # i
                  /\ desk.views[i].pending = desk.before.views[i].pending
        /\ \A o \in DOMAIN desk.outputs :
              desk.layouts[o] # NoLayout =>
                  desk.layouts[o].output_count = Cardinality(Placed(o))

\* the run just made is a second run, started after every client had committed
\* the geometry the first run asked for
SecondRun ==
    /\ Arranged
    /\ desk.runs = 2
    /\ \A i \in DOMAIN desk.views :
          desk.before.views[i].current = desk.before.views[i].pending

\* C39: a second run on what the first run committed asks every view for the
\* geometry it has and leaves the stored geometry of the resized view as it is
C39_SecondRunChangesNothing ==
    SecondRun =>
        /\ \A i \in DOMAIN desk.views :
              desk.views[i].pending = desk.before.views[i].current
        /\ desk.resized_view_geometry = desk.before.resized_view_geometry

(***************************************************************************)
(* Properties of the control channel under concurrent invocations.          *)
(***************************************************************************)
\* the line invocation k writes, with the command file it writes it to
InvocationLine(k) ==
    [file |-> CmdFile(cli.procs[k].flag.family),
     line |-> IF cli.procs[k].flag.family = "keybind"
              THEN <<cli.procs[k].flag.command, cli.procs[k].flag.arg>>
              ELSE command_line(cli.procs[k].flag.command, cli.procs[k].flag.arg)]

\* how often the server has dispatched the command x
Dispatches(x) == Cardinality({ n \in 1..Len(cli.dispatched) : cli.dispatched[n] = x })

\* every invocation has exited and the server has handled every signal
ControlQuiet ==
    /\ \A k \in 1..MaxInvocations : cli.procs[k].pc = "exited"
    /\ ~cli.pending

\* C40: the server never dispatches a command more often than invocations have
\* written and closed it, and never what an earlier invocation left in a
\* command file; and when every invocation has exited and every signal is
\* handled, each command has been dispatched once for every invocation that
\* wrote it and exited with 0
C40_EveryCommandOnce ==
    /\ \A n \in 1..Len(cli.dispatched) : cli.dispatched[n].line # OldLine
    /\ \A k \in 1..MaxInvocations :
          Dispatches(InvocationLine(k)) <=
              Cardinality({ j \in 1..MaxInvocations :
                              /\ InvocationLine(j) = InvocationLine(k)
                              /\ cli.procs[j].pc \in {"closed", "signalled", "exited"} })
    /\ ControlQuiet =>
          \A k \in 1..MaxInvocations :
              cli.procs[k].status = 0 =>
                  Dispatches(InvocationLine(k)) =
                      Cardinality({ j \in 1..MaxInvocations :
                                      /\ InvocationLine(j) = InvocationLine(k)
                                      /\ cli.procs[j].status = 0 })

============================================================================
